---- MODULE Spec2Model ----
(***************************************************************************)
(* A model of the orion pipeline: the validation runner                    *)
(* (src/src/code_tester.py), the patch extractor (src/src/ai_generator.py) *)
(* and the workflow entry point (src/src/workflow.py).                     *)
(*                                                                         *)
(* Texts and file names are sequences of tokens.  A token stands for one   *)
(* lexical unit of the text: "NL" a newline, "SP" a blank, "FENCE" the     *)
(* three backquotes, ".py" the suffix, and so on.                          *)
(***************************************************************************)
EXTENDS Integers, Sequences, FiniteSets, TLC

VARIABLES
    pc,                \* position of the running function
    created_files,     \* test_generated_code: the candidate list
    disk,              \* the repository directory: file name -> content
    idx,               \* test_generated_code: position of the for loop (1-based)
    all_tests_passed,  \* test_generated_code: the accumulator
    code,              \* the text last read from the candidate
    cur,               \* what happened so far to the candidate being evaluated
    test_success,      \* the value create_and_run_test_wrapper returned
    proc,              \* the harness subprocess
    reports,           \* the per-file verdicts the runner printed, in order
    events,            \* the operations performed, in order
    t_outcome,         \* test_generated_code: "running", "returned" or "raised"
    t_ret,             \* the value test_generated_code returned
    raised,            \* the exception that left the running function, or "none"
    changes_description,  \* make_code_changes: the generated text
    matches,           \* make_code_changes: the result of re.findall
    m_idx,             \* make_code_changes: position of the for loop (1-based)
    m_written,         \* the matches whose file was written, in order
    m_outcome,         \* make_code_changes: "running", "returned" or "raised"
    flags,             \* run: enable_testing, create_venv, strict_testing, ...
    cwd,               \* the working directory of the process
    original_dir,      \* run: the local original_dir, or "unbound"
    repo_state,        \* what is at repo_path: "absent", "valid" or "invalid"
    venv,              \* whether repo_path/.venv exists
    ops,               \* the external commands run() has issued, in order
    deps_installed,    \* run: the local deps_installed
    tests_passed,      \* run: the local tests_passed
    pending,           \* run: the exception in flight while finally runs
    r_outcome,         \* run: "running", "returned" or "raised"
    e_calls,           \* the calls made on the stand-alone functions so far
    e_last,            \* the last of these calls: its arguments and its result
    session,           \* run_complete_workflow: the session dictionary
    status_log,        \* the values assigned to session["status"] after "running"
    phase_log,         \* the phase methods called: what each returned, and why
    workflow_sessions, \* the agent's state entry "workflow_sessions"
    o_pending,         \* "return", or the exception in flight while finally runs
    o_outcome,         \* run_complete_workflow: "running", "returned", "raised"
    o_ret,             \* the value run_complete_workflow returned
    b_msgs,            \* the chat messages delivered to the client
    b_pc,              \* on_message: the position of the handler of each message
    b_run,             \* the call of run made for each message, on its worker thread
    b_sent,            \* the messages each handler has sent to the channel, in order
    b_starts           \* how many times each handler has started run

testVars == <<created_files, disk, idx, all_tests_passed, code, cur,
              test_success, proc, reports, events, t_outcome, t_ret, raised>>

genVars == <<changes_description, matches, m_idx, m_written, m_outcome>>

runVars == <<flags, cwd, original_dir, repo_state, venv, ops, deps_installed,
             tests_passed, pending, r_outcome>>

envVars == <<e_calls, e_last>>

orchVars == <<session, status_log, phase_log, workflow_sessions, o_pending,
              o_outcome, o_ret>>

(* What the runner, the extractor and run leave alone. *)
botVars == <<b_msgs, b_pc, b_run, b_sent, b_starts>>

extVars == <<envVars, orchVars, botVars>>

vars == <<pc, testVars, genVars, runVars, envVars, orchVars, botVars>>

----------------------------------------------------------------------------
(* Bounds of the model. *)

MaxFiles == 2

MaxSegs == 4

MaxCalls == 2

MaxMsgs == 2

MaxSuffix == 2

(* The wall-clock limit of one harness run, in seconds. *)
TimeoutSecs == 60

----------------------------------------------------------------------------
(* Sequences of tokens. *)

RECURSIVE SeqsUpTo(_, _)
SeqsUpTo(S, n) ==
    IF n = 0 THEN {<<>>}
    ELSE LET shorter == SeqsUpTo(S, n - 1)
         IN  shorter \cup {Append(s, x) : s \in {t \in shorter : Len(t) = n - 1}, x \in S}

Range(s) == {s[i] : i \in 1..Len(s)}

----------------------------------------------------------------------------
(* Python's exception classes and the except clauses of code_tester.py. *)

(* The classes derived from Exception; SystemExit is not one of them. *)
ExceptionClasses ==
    {"SyntaxError", "ValueError", "OSError", "TimeoutExpired",
     "CalledProcessError", "UnboundLocalError", "RuntimeError",
     "HTTPException"}

IsException(e) == e \in ExceptionClasses

SyntaxHandlerCatches(e) == e = "SyntaxError"

(* The handler written for SyntaxError only. *)
FileHandlerNarrow(e) == e = "SyntaxError"

FileHandlerCatches(e) == IsException(e)

TimeoutHandlerCatches(e) == e = "TimeoutExpired"

RunHandlerCatches(e) == IsException(e)

WrapperHandlerCatches(e) == IsException(e)

CleanupHandlerCatches(e) == TRUE

----------------------------------------------------------------------------
(* File names, file contents and the file system. *)

EndsWithPy(filename) == Len(filename) > 0 /\ filename[Len(filename)] = ".py"

WrapperName(filename) == <<"test_">> \o filename

(* The replacement fields of the first f-string of generate_test_wrapper
   (lines 165-253): the expression between the braces and its format
   specifier.  Lines 167 and 192 name the file; the braces of the dictionary
   display of lines 225-228 are single, so they open a third field whose
   expression is the string 'input' and whose specifier is the rest of the
   dictionary. *)
TemplateFields ==
    <<[expr |-> "filename", spec |-> ""],
      [expr |-> "filename", spec |-> ""],
      [expr |-> "'input'", spec |-> " mock_input_with_counter, 'open': ..."]>>

TemplateFieldsEscaped == SubSeq(TemplateFields, 1, 2)

(* format(value, spec) of a string: the empty specifier gives the string, a
   specifier that is no format specification raises ValueError. *)
FormatError(spec) == IF spec = "" THEN "none" ELSE "ValueError"

(* generate_test_wrapper: the exception the evaluation of the f-string
   raises, or the harness text, which names the file it drives. *)
generate_test_wrapper_with(fields, src, filename) ==
    IF \E i \in DOMAIN fields : FormatError(fields[i].spec) # "none"
    THEN [raised |-> "ValueError", text |-> <<>>]
    ELSE [raised |-> "none", text |-> <<"WRAPPER">> \o filename]

(* The f-string with the braces of lines 225-228 doubled. *)
generate_test_wrapper_escaped(src, filename) ==
    generate_test_wrapper_with(TemplateFieldsEscaped, src, filename)

generate_test_wrapper(src, filename) ==
    generate_test_wrapper_with(TemplateFields, src, filename)

(* compile(code, filepath, "exec"): the exception it raises, or "none".  The
   token "SYNTAXERR" stands for text that does not parse, "NUL" for a null
   byte, which compile rejects with ValueError. *)
CompileError(src) ==
    IF "NUL" \in Range(src) THEN "ValueError"
    ELSE IF "SYNTAXERR" \in Range(src) THEN "SyntaxError"
    ELSE "none"

Exists(d, filename) == filename \in DOMAIN d

WriteFile(d, filename, content) ==
    [f \in DOMAIN d \cup {filename} |-> IF f = filename THEN content ELSE d[f]]

RemoveFile(d, filename) == [f \in DOMAIN d \ {filename} |-> d[f]]

----------------------------------------------------------------------------
(* The inputs of the validation runner. *)

FileNames == {<<"a", ".py">>, <<"test_", "a", ".py">>, <<"notes", ".md">>}

Contents == {<<"print">>, <<"raise">>, <<"loop">>, <<"SYNTAXERR">>, <<"NUL">>}

(* How long a harness process runs when nobody stops it: some seconds, or
   for ever (a blocking call). *)
ProcKinds ==
    {[hangs |-> FALSE, secs |-> 1],
     [hangs |-> FALSE, secs |-> TimeoutSecs + 1],
     [hangs |-> TRUE, secs |-> TimeoutSecs + 1]}

ExitCodes == {0, 1}

NoProc == [state |-> "none", hangs |-> FALSE, secs |-> 0, rc |-> 0]

NoFlags ==
    [enable_testing |-> FALSE, create_venv |-> FALSE, strict_testing |-> FALSE,
     commit_changes |-> FALSE, create_pr |-> FALSE]

NoCall == [fn |-> "none"]

NoSession == [status |-> "none", error |-> "none", phases |-> {}]

NoCur == [src |-> <<>>, syntax_ok |-> FALSE, written |-> FALSE,
          executed |-> FALSE, reason |-> "none"]

----------------------------------------------------------------------------
(* The patch extractor, src/src/ai_generator.py: regular expressions and
   string functions on token sequences. *)

SubSeqFrom(t, i) == SubSeq(t, i, Len(t))

(* \s : a blank or a newline *)
IsSpace(tok) == tok \in {"SP", "NL"}

(* Positions p..Len(t) that hold tok, as a set. *)
IndexesFrom(t, p, tok) == {i \in p..Len(t) : t[i] = tok}

Min(S) == CHOOSE x \in S : \A y \in S : x <= y

Max(S) == CHOOSE x \in S : \A y \in S : x >= y

(* str.strip(): leading and trailing white space removed *)
Strip(t) ==
    LET solid == {i \in 1..Len(t) : ~IsSpace(t[i])}
    IN  IF solid = {} THEN <<>> ELSE SubSeq(t, Min(solid), Max(solid))

(* s in t, for strings: s occurs in t as a contiguous run *)
Contains(t, s) ==
    \E i \in 1..(Len(t) - Len(s) + 1) : SubSeq(t, i, i + Len(s) - 1) = s

(* The tail of the pattern after the file name, tried with the name ending
   before position nl: \n```(?:python)?\n(.*?)```   (re.DOTALL) *)
FenceAfter(t, nl) ==
    LET open ==
            IF nl + 1 <= Len(t) /\ t[nl] = "NL" /\ t[nl + 1] = "FENCE"
            THEN IF nl + 3 <= Len(t) /\ t[nl + 2] = "python" /\ t[nl + 3] = "NL"
                 THEN nl + 4
                 ELSE IF nl + 2 <= Len(t) /\ t[nl + 2] = "NL" THEN nl + 3 ELSE 0
            ELSE 0
        close == IF open = 0 THEN {} ELSE IndexesFrom(t, open, "FENCE")
    IN  IF close = {} THEN [ok |-> FALSE, body |-> <<>>, end |-> 0]
        ELSE [ok |-> TRUE, body |-> SubSeq(t, open, Min(close) - 1),
              end |-> Min(close)]

(* FILE:\s*([^\n]+) with the name starting at position start: the name is
   the run of tokens up to the next newline, and is not empty. *)
NameFrom(t, start) ==
    LET nls == IndexesFrom(t, start, "NL")
    IN  IF nls = {} \/ start > Len(t) THEN [ok |-> FALSE, nl |-> 0]
        ELSE IF Min(nls) = start THEN [ok |-> FALSE, nl |-> 0]
        ELSE [ok |-> TRUE, nl |-> Min(nls)]

(* One attempt of the whole pattern at position p, with \s* taking k tokens. *)
TryMatch(t, p, k) ==
    LET nm == NameFrom(t, p + 1 + k)
        fa == IF nm.ok THEN FenceAfter(t, nm.nl)
              ELSE [ok |-> FALSE, body |-> <<>>, end |-> 0]
    IN  IF nm.ok /\ fa.ok
        THEN [ok |-> TRUE, name |-> SubSeq(t, p + 1 + k, nm.nl - 1),
              body |-> fa.body, end |-> fa.end]
        ELSE [ok |-> FALSE, name |-> <<>>, body |-> <<>>, end |-> 0]

(* The pattern FILE:\s*([^\n]+)\n```(?:python)?\n(.*?)``` matched at position
   p: \s* is greedy, so the longest run of white space that lets the rest
   match is taken. *)
MatchAt(t, p) ==
    LET run == {k \in 0..(Len(t) - p) : \A j \in 1..k : IsSpace(t[p + j])}
        good == {k \in run : TryMatch(t, p, k).ok}
    IN  IF t[p] = "FILE:" /\ good # {}
        THEN TryMatch(t, p, Max(good))
        ELSE [ok |-> FALSE, name |-> <<>>, body |-> <<>>, end |-> 0]

(* re.findall(file_pattern, text, re.DOTALL): the matches from left to right,
   each search resuming after the previous match. *)
RECURSIVE FindFiles(_, _)
FindFiles(t, p) ==
    IF p > Len(t) THEN <<>>
    ELSE LET m == MatchAt(t, p)
         IN  IF m.ok
             THEN <<[name |-> m.name, body |-> m.body]>> \o FindFiles(t, m.end + 1)
             ELSE FindFiles(t, p + 1)

(* re.findall(r"```python\n(.*?)```", text, re.DOTALL) when python is TRUE,
   re.findall(r"```\n(.*?)```", text, re.DOTALL) when it is FALSE *)
RECURSIVE FindBlocks(_, _, _)
FindBlocks(t, p, python) ==
    IF p > Len(t) THEN <<>>
    ELSE LET open ==
                 IF t[p] # "FENCE" THEN 0
                 ELSE IF python
                 THEN IF p + 2 <= Len(t) /\ t[p + 1] = "python" /\ t[p + 2] = "NL"
                      THEN p + 3 ELSE 0
                 ELSE IF p + 1 <= Len(t) /\ t[p + 1] = "NL" THEN p + 2 ELSE 0
             close == IF open = 0 THEN {} ELSE IndexesFrom(t, open, "FENCE")
         IN  IF close = {} THEN FindBlocks(t, p + 1, python)
             ELSE <<SubSeq(t, open, Min(close) - 1)>>
                      \o FindBlocks(t, Min(close) + 1, python)

BlockKeywords ==
    {<<"import">>, <<"def", "SP">>, <<"class", "SP">>, <<"from", "SP">>,
     <<"print(">>}

LineKeywords ==
    {<<"import", "SP">>, <<"from", "SP">>, <<"def", "SP">>, <<"class", "SP">>,
     <<"if __name__">>}

(* The first position of each line of text.split("\n"). *)
LineStarts(t) == {1} \cup {i + 1 : i \in IndexesFrom(t, 1, "NL")}

LineAt(t, start) ==
    LET nls == IndexesFrom(t, start, "NL")
    IN  IF nls = {} THEN SubSeqFrom(t, start) ELSE SubSeq(t, start, Min(nls) - 1)

(* extract_python_code_from_text *)
extract_python_code_from_text(text) ==
    LET python_blocks == FindBlocks(text, 1, TRUE)
        code_blocks == FindBlocks(text, 1, FALSE)
        likely == {k \in 1..Len(code_blocks) :
                     \E kw \in BlockKeywords : Contains(code_blocks[k], kw)}
        starts == {st \in LineStarts(text) :
                     \E kw \in LineKeywords : Contains(LineAt(text, st), kw)}
        python_lines == IF starts = {} THEN <<>> ELSE SubSeqFrom(text, Min(starts))
    IN  IF python_blocks # <<>> THEN Strip(python_blocks[1])
        ELSE IF likely # {} THEN Strip(code_blocks[Min(likely)])
        ELSE IF starts # {}
                /\ (Contains(python_lines, <<"import">>)
                    \/ Contains(python_lines, <<"def", "SP">>))
        THEN python_lines
        ELSE <<>>

DotTokens == {".", ".py", ".md", ".txt"}

(* "." in filename *)
HasDot(name) == \E i \in 1..Len(name) : name[i] \in DotTokens

(* The extension is appended to every name that does not end in .py. *)
TargetNameAlwaysPy(name) ==
    LET stripped == Strip(name)
    IN  IF ~EndsWithPy(stripped) THEN stripped \o <<".py">> ELSE stripped

(* lines 86-91: the path a match is written to *)
TargetName(name) ==
    LET stripped == Strip(name)
    IN  IF ~EndsWithPy(stripped) /\ ~HasDot(stripped)
        THEN stripped \o <<".py">>
        ELSE stripped

ClipScript == <<"clip_script", ".py">>

DocFile == <<"AI_SUGGESTED_CHANGES", ".md">>

DocHeader == <<"# AI Suggested Changes", "NL", "NL">>

----------------------------------------------------------------------------
(* test_generated_code and create_and_run_test_wrapper, src/src/code_tester.py *)

filename == created_files[idx]

(* One line of the runner's report: the file, the text that was compiled,
   what was done to it, the state of its harness process and the verdict. *)
Report(c, passed, reason) ==
    [idx |-> idx, file |-> filename, src |-> c.src, syntax_ok |-> c.syntax_ok,
     written |-> c.written, executed |-> c.executed, proc |-> proc,
     passed |-> passed, exit_reason |-> reason]

Event(op) ==
    [op |-> op, idx |-> idx, file |-> filename, py |-> EndsWithPy(filename),
     on_disk |-> Exists(disk, filename)]

(* subprocess.run(..., timeout=60) stops waiting, kills the child and raises
   TimeoutExpired when the child has not exited after the timeout. *)
TimedOut(p) == p.hangs \/ p.secs > TimeoutSecs

(* The handler of the loop body ends the loop. *)
FileThrowBreaks(e, c) ==
    /\ all_tests_passed' = FALSE
    /\ reports' = Append(reports, Report(c, FALSE, "exception"))
    /\ idx' = Len(created_files) + 1
    /\ pc' = "t_loop"
    /\ UNCHANGED <<test_success, t_outcome, t_ret, raised>>

(* An exception reaches the handler of the loop body (line 58). *)
FileThrow(e, c) ==
    IF FileHandlerCatches(e)
    THEN /\ all_tests_passed' = FALSE
         /\ reports' = Append(reports, Report(c, FALSE, "exception"))
         /\ idx' = idx + 1
         /\ pc' = "t_loop"
         /\ UNCHANGED <<test_success, t_outcome, t_ret, raised>>
    ELSE /\ pc' = "t_done"
         /\ t_outcome' = "raised"
         /\ raised' = e
         /\ UNCHANGED <<all_tests_passed, reports, idx, test_success, t_ret>>

(* An exception reaches the outer handler of create_and_run_test_wrapper
   (line 139), which returns False. *)
WrapThrow(e, c) ==
    IF WrapperHandlerCatches(e)
    THEN /\ test_success' = FALSE
         /\ pc' = "t_verdict"
         /\ UNCHANGED <<all_tests_passed, reports, idx, t_outcome, t_ret, raised>>
    ELSE FileThrow(e, c)

(* An exception reaches the handlers of the inner try (lines 122 and 130),
   which both go on to remove the harness file. *)
InnerThrow(e, c) ==
    IF TimeoutHandlerCatches(e) \/ RunHandlerCatches(e)
    THEN /\ pc' = "w_cleanup"
         /\ UNCHANGED <<test_success, all_tests_passed, reports, idx,
                        t_outcome, t_ret, raised>>
    ELSE WrapThrow(e, c)

(* lines 18-24 *)
TEntry ==
    /\ pc = "t_entry"
    /\ IF created_files = <<>>
       THEN /\ pc' = "t_done"
            /\ t_outcome' = "returned"
            /\ t_ret' = TRUE
            /\ UNCHANGED <<all_tests_passed, idx>>
       ELSE /\ pc' = "t_loop"
            /\ all_tests_passed' = TRUE
            /\ idx' = 1
            /\ UNCHANGED <<t_outcome, t_ret>>
    /\ UNCHANGED <<created_files, disk, code, cur, test_success, proc,
                   reports, events, raised>>
    /\ UNCHANGED <<genVars, runVars>>
    /\ UNCHANGED extVars

(* A skipped candidate counts as a failure. *)
TSkipCountsFailure ==
    /\ pc = "t_loop"
    /\ idx <= Len(created_files)
    /\ (~EndsWithPy(filename) \/ ~Exists(disk, filename))
    /\ events' = Append(events, Event("skip"))
    /\ idx' = idx + 1
    /\ all_tests_passed' = FALSE
    /\ UNCHANGED <<pc, created_files, disk, code, cur,
                   test_success, proc, reports, t_outcome, t_ret, raised>>
    /\ UNCHANGED <<genVars, runVars>>
    /\ UNCHANGED extVars

(* lines 26-32: a candidate that is no .py file or is not on disk *)
TSkip ==
    /\ pc = "t_loop"
    /\ idx <= Len(created_files)
    /\ (~EndsWithPy(filename) \/ ~Exists(disk, filename))
    /\ events' = Append(events, Event("skip"))
    /\ idx' = idx + 1
    /\ UNCHANGED <<pc, created_files, disk, all_tests_passed, code, cur,
                   test_success, proc, reports, t_outcome, t_ret, raised>>
    /\ UNCHANGED <<genVars, runVars>>
    /\ UNCHANGED extVars

(* lines 26-35: a candidate that is evaluated *)
TBegin ==
    /\ pc = "t_loop"
    /\ idx <= Len(created_files)
    /\ EndsWithPy(filename)
    /\ Exists(disk, filename)
    /\ pc' = "t_read"
    /\ cur' = NoCur
    /\ proc' = NoProc
    /\ events' = Append(events, Event("begin"))
    /\ UNCHANGED <<created_files, disk, idx, all_tests_passed, code,
                   test_success, reports, t_outcome, t_ret, raised>>
    /\ UNCHANGED <<genVars, runVars>>
    /\ UNCHANGED extVars

(* lines 38-39 *)
TRead ==
    /\ pc = "t_read"
    /\ \E ok \in BOOLEAN :
          IF ok
          THEN /\ code' = disk[filename]
               /\ cur' = [cur EXCEPT !.src = disk[filename]]
               /\ pc' = "t_compile"
               /\ UNCHANGED <<all_tests_passed, reports, idx,
                              test_success, t_outcome, t_ret, raised>>
          ELSE /\ cur' = [cur EXCEPT !.reason = "exception"]
               /\ FileThrow("OSError", cur)
               /\ UNCHANGED code
    /\ UNCHANGED <<created_files, disk, proc, events>>
    /\ UNCHANGED <<genVars, runVars>>
    /\ UNCHANGED extVars

(* The syntax error is recorded, and the harness runs all the same. *)
TCompileFallsThrough ==
    /\ pc = "t_compile"
    /\ LET e == CompileError(code) IN
         IF e = "none"
         THEN /\ cur' = [cur EXCEPT !.syntax_ok = TRUE]
              /\ pc' = "w_read"
              /\ UNCHANGED <<all_tests_passed, reports, idx, test_success,
                             t_outcome, t_ret, raised>>
         ELSE IF SyntaxHandlerCatches(e)
         THEN /\ all_tests_passed' = FALSE
              /\ pc' = "w_read"
              /\ UNCHANGED <<cur, reports, idx, test_success, t_outcome,
                             t_ret, raised>>
         ELSE /\ FileThrow(e, cur)
              /\ UNCHANGED cur
    /\ events' = Append(events, Event("compile"))
    /\ UNCHANGED <<created_files, disk, code, proc>>
    /\ UNCHANGED <<genVars, runVars>>
    /\ UNCHANGED extVars

(* lines 41-47 *)
TCompile ==
    /\ pc = "t_compile"
    /\ LET e == CompileError(code) IN
         IF e = "none"
         THEN /\ cur' = [cur EXCEPT !.syntax_ok = TRUE]
              /\ pc' = "w_read"
              /\ UNCHANGED <<all_tests_passed, reports, idx, test_success,
                             t_outcome, t_ret, raised>>
         ELSE IF SyntaxHandlerCatches(e)
         THEN /\ all_tests_passed' = FALSE
              /\ reports' = Append(reports, Report(cur, FALSE, "syntax_error"))
              /\ idx' = idx + 1
              /\ pc' = "t_loop"
              /\ UNCHANGED <<cur, test_success, t_outcome, t_ret, raised>>
         ELSE /\ FileThrow(e, cur)
              /\ UNCHANGED cur
    /\ events' = Append(events, Event("compile"))
    /\ UNCHANGED <<created_files, disk, code, proc>>
    /\ UNCHANGED <<genVars, runVars>>
    /\ UNCHANGED extVars

(* lines 85-90 *)
WRead ==
    /\ pc = "w_read"
    /\ \E ok \in BOOLEAN :
          IF ok
          THEN /\ code' = disk[filename]
               /\ pc' = "w_generate"
               /\ UNCHANGED <<cur, all_tests_passed, reports, idx,
                              test_success, t_outcome, t_ret, raised>>
          ELSE /\ cur' = [cur EXCEPT !.reason = "exception"]
               /\ WrapThrow("OSError", cur)
               /\ UNCHANGED code
    /\ UNCHANGED <<created_files, disk, proc, events>>
    /\ UNCHANGED <<genVars, runVars>>
    /\ UNCHANGED extVars

(* lines 90-95: the harness text is generated and written to the sibling
   file test_<filename>, or generating or writing it raises *)
WGenerate ==
    /\ pc = "w_generate"
    /\ LET w == generate_test_wrapper(code, filename)
       IN IF w.raised # "none"
          THEN /\ cur' = [cur EXCEPT !.reason = "exception"]
               /\ WrapThrow(w.raised, cur)
               /\ events' = Append(events, Event("generate"))
               /\ UNCHANGED disk
          ELSE \E ok \in BOOLEAN :
                 IF ok
                 THEN /\ disk' = WriteFile(disk, WrapperName(filename), w.text)
                      /\ cur' = [cur EXCEPT !.written = TRUE]
                      /\ events' = events \o
                            <<Event("generate"), Event("write_wrapper")>>
                      /\ pc' = "w_spawn"
                      /\ UNCHANGED <<all_tests_passed, reports, idx,
                                     test_success, t_outcome, t_ret, raised>>
                 ELSE /\ cur' = [cur EXCEPT !.reason = "exception"]
                      /\ WrapThrow("OSError", cur)
                      /\ events' = Append(events, Event("generate"))
                      /\ UNCHANGED disk
    /\ UNCHANGED <<created_files, code, proc>>
    /\ UNCHANGED <<genVars, runVars>>
    /\ UNCHANGED extVars

(* Lines 99-137 run only after the harness file was written.  With the
   template of lines 165-253 generate_test_wrapper never returns a text, so
   the five steps below are no disjunct of NextTest or NextRun. *)

(* lines 99-105: the child is started, or starting it fails *)
WSpawn ==
    /\ pc = "w_spawn"
    /\ \E launched \in BOOLEAN :
          IF launched
          THEN /\ \E k \in ProcKinds, rc \in ExitCodes :
                    proc' = [state |-> "running", hangs |-> k.hangs,
                             secs |-> k.secs, rc |-> rc]
               /\ cur' = [cur EXCEPT !.executed = TRUE]
               /\ events' = Append(events, Event("exec"))
               /\ pc' = "w_wait"
               /\ UNCHANGED <<all_tests_passed, reports, idx, test_success,
                              t_outcome, t_ret, raised>>
          ELSE /\ cur' = [cur EXCEPT !.reason = "exception"]
               /\ InnerThrow("OSError", cur)
               /\ UNCHANGED <<proc, events>>
    /\ UNCHANGED <<created_files, disk, code>>
    /\ UNCHANGED <<genVars, runVars>>
    /\ UNCHANGED extVars

(* lines 99-105: the child exits in time, or the timeout expires *)
WWait ==
    /\ pc = "w_wait"
    /\ proc.state = "running"
    /\ IF TimedOut(proc)
       THEN /\ proc' = [proc EXCEPT !.state = "killed"]
            /\ cur' = [cur EXCEPT !.reason = "timeout"]
            /\ events' = Append(events, Event("kill"))
            /\ InnerThrow("TimeoutExpired", cur)
       ELSE /\ ~proc.hangs
            /\ proc' = [proc EXCEPT !.state = "exited"]
            /\ pc' = "w_remove"
            /\ UNCHANGED <<cur, events, all_tests_passed, reports, idx,
                           test_success, t_outcome, t_ret, raised>>
    /\ UNCHANGED <<created_files, disk, code>>
    /\ UNCHANGED <<genVars, runVars>>
    /\ UNCHANGED extVars

(* line 108 *)
WRemove ==
    /\ pc = "w_remove"
    /\ \E ok \in BOOLEAN :
          IF ok
          THEN /\ disk' = RemoveFile(disk, WrapperName(filename))
               /\ events' = Append(events, Event("remove"))
               /\ pc' = "w_result"
               /\ UNCHANGED <<cur, all_tests_passed, reports, idx,
                              test_success, t_outcome, t_ret, raised>>
          ELSE /\ cur' = [cur EXCEPT !.reason = "exception"]
               /\ InnerThrow("OSError", cur)
               /\ UNCHANGED <<disk, events>>
    /\ UNCHANGED <<created_files, code, proc>>
    /\ UNCHANGED <<genVars, runVars>>
    /\ UNCHANGED extVars

(* lines 110-120 *)
WResult ==
    /\ pc = "w_result"
    /\ test_success' = (proc.rc = 0)
    /\ cur' = [cur EXCEPT !.reason = IF proc.rc = 0 THEN "ok" ELSE "non_zero_exit"]
    /\ pc' = "t_verdict"
    /\ UNCHANGED <<created_files, disk, idx, all_tests_passed, code, proc,
                   reports, events, t_outcome, t_ret, raised>>
    /\ UNCHANGED <<genVars, runVars>>
    /\ UNCHANGED extVars

(* lines 124-129 and 132-137: remove the harness file, ignore a failure,
   return False *)
WCleanup ==
    /\ pc = "w_cleanup"
    /\ \E ok \in BOOLEAN :
          IF ok
          THEN /\ disk' = RemoveFile(disk, WrapperName(filename))
               /\ events' = Append(events, Event("remove"))
               /\ test_success' = FALSE
               /\ pc' = "t_verdict"
               /\ UNCHANGED <<all_tests_passed, reports, idx, t_outcome,
                              t_ret, raised>>
          ELSE /\ IF CleanupHandlerCatches("OSError")
                  THEN /\ test_success' = FALSE
                       /\ pc' = "t_verdict"
                       /\ UNCHANGED <<all_tests_passed, reports, idx,
                                      t_outcome, t_ret, raised>>
                  ELSE WrapThrow("OSError", cur)
               /\ UNCHANGED <<disk, events>>
    /\ UNCHANGED <<created_files, code, cur, proc>>
    /\ UNCHANGED <<genVars, runVars>>
    /\ UNCHANGED extVars

(* A failed verdict leaves the accumulator as it was. *)
TVerdictForgetsFailure ==
    /\ pc = "t_verdict"
    /\ all_tests_passed' = all_tests_passed
    /\ reports' = Append(reports, Report(cur, test_success, cur.reason))
    /\ idx' = idx + 1
    /\ pc' = "t_loop"
    /\ UNCHANGED <<created_files, disk, code, cur, test_success, proc,
                   events, t_outcome, t_ret, raised>>
    /\ UNCHANGED <<genVars, runVars>>
    /\ UNCHANGED extVars

(* lines 52-56 *)
TVerdict ==
    /\ pc = "t_verdict"
    /\ all_tests_passed' = (all_tests_passed /\ test_success)
    /\ reports' = Append(reports, Report(cur, test_success, cur.reason))
    /\ idx' = idx + 1
    /\ pc' = "t_loop"
    /\ UNCHANGED <<created_files, disk, code, cur, test_success, proc,
                   events, t_outcome, t_ret, raised>>
    /\ UNCHANGED <<genVars, runVars>>
    /\ UNCHANGED extVars

(* lines 62-67 *)
TReturn ==
    /\ pc = "t_loop"
    /\ idx > Len(created_files)
    /\ t_ret' = all_tests_passed
    /\ t_outcome' = "returned"
    /\ pc' = "t_done"
    /\ UNCHANGED <<created_files, disk, idx, all_tests_passed, code, cur,
                   test_success, proc, reports, events, raised>>
    /\ UNCHANGED <<genVars, runVars>>
    /\ UNCHANGED extVars

NextTest ==
    \/ TEntry \/ TSkip \/ TBegin \/ TRead \/ TCompile
    \/ WRead \/ WGenerate
    \/ TVerdict \/ TReturn

(* A call of test_generated_code on any candidate list, in any repository
   directory. *)
InitTest ==
    /\ pc = "t_entry"
    /\ created_files \in SeqsUpTo(FileNames, MaxFiles)
    /\ \E D \in SUBSET FileNames : disk \in [D -> Contents]
    /\ idx = 0
    /\ all_tests_passed = TRUE
    /\ code = <<>>
    /\ cur = NoCur
    /\ test_success = FALSE
    /\ proc = NoProc
    /\ reports = <<>>
    /\ events = <<>>
    /\ t_outcome = "running"
    /\ t_ret = FALSE
    /\ raised = "none"
    /\ changes_description = <<>>
    /\ matches = <<>>
    /\ m_idx = 0
    /\ m_written = <<>>
    /\ m_outcome = "idle"
    /\ flags = NoFlags
    /\ cwd = "entry"
    /\ original_dir = "unbound"
    /\ repo_state = "valid"
    /\ venv = TRUE
    /\ ops = <<>>
    /\ deps_installed = FALSE
    /\ tests_passed = FALSE
    /\ pending = "none"
    /\ r_outcome = "idle"
    /\ e_calls = 0
    /\ e_last = NoCall
    /\ session = NoSession
    /\ status_log = <<>>
    /\ phase_log = <<>>
    /\ workflow_sessions = <<>>
    /\ o_pending = "none"
    /\ o_outcome = "idle"
    /\ o_ret = NoSession
    /\ b_msgs = <<>>
    /\ b_pc = <<>>
    /\ b_run = <<>>
    /\ b_sent = <<>>
    /\ b_starts = <<>>

SpecTest == InitTest /\ [][NextTest]_vars

(* The child process and the interpreter make progress. *)
FairSpecTest == SpecTest /\ WF_vars(NextTest)

----------------------------------------------------------------------------
(* make_code_changes, src/src/ai_generator.py *)

testIdle ==
    <<idx, all_tests_passed, code, cur, test_success, proc, reports, events,
      t_outcome, t_ret>>

(* lines 59-63 and 84 *)
MParse ==
    /\ pc = "m_entry"
    /\ matches' = FindFiles(changes_description, 1)
    /\ IF matches' = <<>>
       THEN pc' = "m_fallback" /\ UNCHANGED m_idx
       ELSE pc' = "m_write" /\ m_idx' = 1
    /\ created_files' = <<>>
    /\ UNCHANGED <<changes_description, m_written, m_outcome, disk, raised>>
    /\ UNCHANGED <<testIdle, runVars>>
    /\ UNCHANGED extVars

(* lines 64-73: the text holds something that looks like Python *)
MFallbackScript ==
    /\ pc = "m_fallback"
    /\ LET script_content == extract_python_code_from_text(changes_description) IN
         /\ script_content # <<>>
         /\ \E ok \in BOOLEAN :
              IF ok
              THEN /\ disk' = WriteFile(disk, ClipScript, script_content)
                   /\ created_files' = <<ClipScript>>
                   /\ m_outcome' = "returned"
                   /\ UNCHANGED raised
              ELSE /\ m_outcome' = "raised"
                   /\ raised' = "OSError"
                   /\ UNCHANGED <<disk, created_files>>
    /\ pc' = "m_done"
    /\ UNCHANGED <<changes_description, matches, m_idx, m_written>>
    /\ UNCHANGED <<testIdle, runVars>>
    /\ UNCHANGED extVars

(* lines 74-81: nothing looks like Python; the text is kept as notes *)
MFallbackDoc ==
    /\ pc = "m_fallback"
    /\ extract_python_code_from_text(changes_description) = <<>>
    /\ \E ok \in BOOLEAN :
         IF ok
         THEN /\ disk' = WriteFile(disk, DocFile, DocHeader \o changes_description)
              /\ created_files' = <<DocFile>>
              /\ m_outcome' = "returned"
              /\ UNCHANGED raised
         ELSE /\ m_outcome' = "raised"
              /\ raised' = "OSError"
              /\ UNCHANGED <<disk, created_files>>
    /\ pc' = "m_done"
    /\ UNCHANGED <<changes_description, matches, m_idx, m_written>>
    /\ UNCHANGED <<testIdle, runVars>>
    /\ UNCHANGED extVars

(* lines 85-101: one match is written; a failure to write is printed and
   the file is left out of the result *)
MWrite ==
    /\ pc = "m_write"
    /\ m_idx <= Len(matches)
    /\ LET target == TargetName(matches[m_idx].name)
           content == Strip(matches[m_idx].body)
       IN  \E ok \in BOOLEAN :
             IF ok
             THEN /\ disk' = WriteFile(disk, target, content)
                  /\ created_files' = Append(created_files, target)
                  /\ m_written' = Append(m_written, m_idx)
             ELSE UNCHANGED <<disk, created_files, m_written>>
    /\ m_idx' = m_idx + 1
    /\ UNCHANGED <<pc, changes_description, matches, m_outcome, raised>>
    /\ UNCHANGED <<testIdle, runVars>>
    /\ UNCHANGED extVars

(* lines 103-110 *)
MReturn ==
    /\ pc = "m_write"
    /\ m_idx > Len(matches)
    /\ m_outcome' = "returned"
    /\ pc' = "m_done"
    /\ UNCHANGED <<changes_description, matches, m_idx, m_written, disk,
                   created_files, raised>>
    /\ UNCHANGED <<testIdle, runVars>>
    /\ UNCHANGED extVars

NextGen == MParse \/ MFallbackScript \/ MFallbackDoc \/ MWrite \/ MReturn

(* The pieces generated texts are made of. *)
Segs ==
    {<<"FILE:", "SP", "a", ".py", "NL">>,
     <<"FILE:", "b", "SP", "NL">>,
     <<"FILE:", "SP", "n", ".md", "NL">>,
     <<"FILE:", "NL">>,
     <<"FENCE", "python", "NL", "x", "NL", "FENCE", "NL">>,
     <<"FENCE", "python", "NL", "import", "SP", "x", "NL", "FENCE", "NL">>,
     <<"FENCE", "py", "NL", "import", "SP", "x", "NL", "FENCE", "NL">>,
     <<"FENCE", "NL", "SP", "import", "SP", "x", "FENCE">>,
     <<"x", "NL">>,
     <<"NL">>,
     <<"import", "SP", "x", "NL">>}

RECURSIVE Flatten(_)
Flatten(ss) == IF ss = <<>> THEN <<>> ELSE Head(ss) \o Flatten(Tail(ss))

Texts == {Flatten(ss) : ss \in SeqsUpTo(Segs, MaxSegs)}

(* A call of make_code_changes on any generated text, in an empty directory. *)
InitGen ==
    /\ pc = "m_entry"
    /\ changes_description \in Texts
    /\ matches = <<>>
    /\ m_idx = 0
    /\ m_written = <<>>
    /\ m_outcome = "running"
    /\ created_files = <<>>
    /\ disk = <<>>
    /\ raised = "none"
    /\ idx = 0
    /\ all_tests_passed = TRUE
    /\ code = <<>>
    /\ cur = NoCur
    /\ test_success = FALSE
    /\ proc = NoProc
    /\ reports = <<>>
    /\ events = <<>>
    /\ t_outcome = "idle"
    /\ t_ret = FALSE
    /\ flags = NoFlags
    /\ cwd = "entry"
    /\ original_dir = "unbound"
    /\ repo_state = "valid"
    /\ venv = TRUE
    /\ ops = <<>>
    /\ deps_installed = FALSE
    /\ tests_passed = FALSE
    /\ pending = "none"
    /\ r_outcome = "idle"
    /\ e_calls = 0
    /\ e_last = NoCall
    /\ session = NoSession
    /\ status_log = <<>>
    /\ phase_log = <<>>
    /\ workflow_sessions = <<>>
    /\ o_pending = "none"
    /\ o_outcome = "idle"
    /\ o_ret = NoSession
    /\ b_msgs = <<>>
    /\ b_pc = <<>>
    /\ b_run = <<>>
    /\ b_sent = <<>>
    /\ b_starts = <<>>

SpecGen == InitGen /\ [][NextGen]_vars

----------------------------------------------------------------------------
(* run, src/src/workflow.py, with clone_repo (src/src/git_operations.py) and
   the environment functions (src/src/environment_manager.py) *)

Manifest == <<"requirements", ".txt">>

(* environment_manager.py line 81: the default packages, in order *)
CommonDeps == <<"torch", "transformers", "pillow", "numpy", "requests">>

(* What is logged for a package whose pip install exits non-zero. *)
DepFailed ==
    [d \in Range(CommonDeps) |->
        CASE d = "torch" -> "torch_failed"
          [] d = "transformers" -> "transformers_failed"
          [] d = "pillow" -> "pillow_failed"
          [] d = "numpy" -> "numpy_failed"
          [] d = "requests" -> "requests_failed"]

(* How python -m venv can end: exit 0; non-zero exit with nothing left
   behind; non-zero exit with the directory left behind; not started. *)
VenvResults == {"ok", "failed", "failed_partial", "not_started"}

(* The tool is run whether or not .venv exists. *)
create_virtual_environment_always(exists, result) ==
    [ret |-> CASE result = "ok" -> "path"
               [] result \in {"failed", "failed_partial"} -> "CalledProcessError"
               [] OTHER -> "OSError",
     issued |-> CASE result = "ok" -> <<"venv">>
                  [] result \in {"failed", "failed_partial"} -> <<"venv_failed">>
                  [] OTHER -> <<"venv_not_started">>,
     exists |-> exists \/ result \in {"ok", "failed_partial"}]

(* create_virtual_environment, lines 6-29: what it returns or raises, the
   commands it issues, and whether .venv exists afterwards *)
create_virtual_environment(exists, result) ==
    IF exists
    THEN [ret |-> "path", issued |-> <<>>, exists |-> TRUE]
    ELSE [ret |-> CASE result = "ok" -> "path"
                    [] result \in {"failed", "failed_partial"} -> "CalledProcessError"
                    [] OTHER -> "OSError",
          issued |-> CASE result = "ok" -> <<"venv">>
                       [] result \in {"failed", "failed_partial"} -> <<"venv_failed">>
                       [] OTHER -> <<"venv_not_started">>,
          exists |-> result \in {"ok", "failed_partial"}]

(* The loop over the default packages ends at the first failure. *)
DefaultInstallsStopAtFailure(failing) ==
    LET bad == {k \in 1..Len(CommonDeps) : CommonDeps[k] \in failing}
        last == IF bad = {} THEN Len(CommonDeps) ELSE Min(bad)
    IN  [k \in 1..last |->
            IF CommonDeps[k] \in failing THEN DepFailed[CommonDeps[k]]
            ELSE CommonDeps[k]]

(* The pip installs of the default packages, those in failing exiting
   non-zero: every package is tried, in order (lines 83-93). *)
DefaultInstalls(failing) ==
    [k \in 1..Len(CommonDeps) |->
        IF CommonDeps[k] \in failing THEN DepFailed[CommonDeps[k]]
        ELSE CommonDeps[k]]

(* A failing pip upgrade is passed over. *)
install_dependencies_upgrade_ignored(has_manifest, python_ok, upgrade_ok, install_ok, failing) ==
    IF ~python_ok
    THEN [ret |-> "OSError", issued |-> <<"pip_not_started">>]
    ELSE IF has_manifest
    THEN [ret |-> IF install_ok THEN "True" ELSE "False",
          issued |-> <<IF upgrade_ok THEN "pip_upgrade" ELSE "pip_upgrade_failed",
                       IF install_ok THEN "pip_manifest" ELSE "pip_manifest_failed">>]
    ELSE [ret |-> "True",
          issued |-> <<IF upgrade_ok THEN "pip_upgrade" ELSE "pip_upgrade_failed">>
                     \o DefaultInstalls(failing)]

(* install_dependencies, lines 47-100: what it returns or raises and the
   commands it issues *)
install_dependencies(has_manifest, python_ok, upgrade_ok, install_ok, failing) ==
    IF ~python_ok
    THEN [ret |-> "OSError", issued |-> <<"pip_not_started">>]
    ELSE IF ~upgrade_ok
    THEN [ret |-> "False", issued |-> <<"pip_upgrade_failed">>]
    ELSE IF has_manifest
    THEN [ret |-> IF install_ok THEN "True" ELSE "False",
          issued |-> <<"pip_upgrade",
                       IF install_ok THEN "pip_manifest" ELSE "pip_manifest_failed">>]
    ELSE [ret |-> "True",
          issued |-> <<"pip_upgrade">> \o DefaultInstalls(failing)]

(* The sets of failing packages tried in a run. *)
RunFailing == {{}, {"pillow"}}

(* The except clauses of run. *)
(* The testing block catches what the environment functions do not expect. *)
TestingHandlerOSErrorOnly(e) == e = "OSError"

TestingHandlerCatches(e) == IsException(e)

PushHandlerCatches(e) == e = "CalledProcessError"

GitHandlerCatches(e) == e = "CalledProcessError"

WorkflowHandlerCatches(e) == IsException(e)

(* An exception reaches the handlers of run's try (lines 194 and 197); the
   finally clause runs next, with the exception in flight if none caught it. *)
RunThrow(e) ==
    /\ pc' = "r_finally"
    /\ pending' = IF GitHandlerCatches(e) \/ WorkflowHandlerCatches(e)
                  THEN "none" ELSE e

(* An exception reaches the handler of the testing block (line 130), after
   which run goes on to the commit phase. *)
TestingThrow(e) ==
    IF TestingHandlerCatches(e)
    THEN pc' = "r_commit_gate" /\ UNCHANGED pending
    ELSE RunThrow(e)

subIdle == <<testIdle, matches, m_idx, m_written, m_outcome>>

(* line 59, clone_repo: a fresh clone when repo_path is absent; otherwise
   chdir into it, git status, git fetch, checkout main or master, chdir
   back; on CalledProcessError from status or fetch: rmtree and clone, with
   no chdir back. *)
RClone ==
    /\ pc = "r_clone"
    /\ IF repo_state = "absent"
       THEN \E ok \in BOOLEAN :
              IF ok
              THEN /\ repo_state' = "valid"
                   /\ ops' = Append(ops, "clone")
                   /\ pc' = "r_chdir"
                   /\ UNCHANGED <<pending, cwd, venv>>
              ELSE /\ ops' = Append(ops, "clone_failed")
                   /\ RunThrow("CalledProcessError")
                   /\ UNCHANGED <<repo_state, cwd, venv>>
       ELSE \E fetch_ok \in BOOLEAN, rm_ok \in BOOLEAN, clone_ok \in BOOLEAN :
              IF repo_state = "valid" /\ fetch_ok
              THEN /\ ops' = ops \o <<"fetch", "checkout_base">>
                   /\ pc' = "r_chdir"
                   /\ UNCHANGED <<pending, cwd, repo_state, venv>>
              ELSE IF ~rm_ok
              THEN /\ ops' = Append(ops, "rmtree_failed")
                   /\ cwd' = "repo"
                   /\ RunThrow("OSError")
                   /\ UNCHANGED <<repo_state, venv>>
              ELSE IF clone_ok
              THEN /\ ops' = ops \o <<"rmtree", "clone">>
                   /\ cwd' = "gone"
                   /\ repo_state' = "valid"
                   /\ venv' = FALSE
                   /\ pc' = "r_chdir"
                   /\ UNCHANGED pending
              ELSE /\ ops' = ops \o <<"rmtree", "clone_failed">>
                   /\ cwd' = "gone"
                   /\ repo_state' = "absent"
                   /\ venv' = FALSE
                   /\ RunThrow("CalledProcessError")
    /\ UNCHANGED <<flags, original_dir, deps_installed, tests_passed, r_outcome,
                   created_files, disk, raised, changes_description>>
    /\ UNCHANGED subIdle
    /\ UNCHANGED extVars

(* lines 62-63: os.getcwd() fails in a directory that was removed *)
RChdir ==
    /\ pc = "r_chdir"
    /\ IF cwd = "gone"
       THEN /\ RunThrow("OSError")
            /\ UNCHANGED <<original_dir, cwd>>
       ELSE /\ original_dir' = cwd
            /\ cwd' = "repo"
            /\ pc' = "r_status"
            /\ UNCHANGED pending
    /\ UNCHANGED <<flags, repo_state, venv, ops, deps_installed, tests_passed,
                   r_outcome, created_files, disk, raised, changes_description>>
    /\ UNCHANGED subIdle
    /\ UNCHANGED extVars

(* lines 66-70: git status; when it fails run returns *)
RStatus ==
    /\ pc = "r_status"
    /\ \E ok \in BOOLEAN :
         IF ok THEN pc' = "r_branch" ELSE pc' = "r_finally"
    /\ UNCHANGED <<runVars, created_files, disk, raised, changes_description>>
    /\ UNCHANGED subIdle
    /\ UNCHANGED extVars

(* lines 73-78: get_unique_branch_name and git checkout -b *)
RBranch ==
    /\ pc = "r_branch"
    /\ \E ok \in BOOLEAN :
         IF ok
         THEN /\ ops' = Append(ops, "checkout_new")
              /\ pc' = "r_generate"
              /\ UNCHANGED pending
         ELSE /\ ops' = Append(ops, "checkout_new_failed")
              /\ RunThrow("CalledProcessError")
    /\ UNCHANGED <<flags, cwd, original_dir, repo_state, venv, deps_installed,
                   tests_passed, r_outcome, created_files, disk, raised,
                   changes_description>>
    /\ UNCHANGED subIdle
    /\ UNCHANGED extVars

(* The texts the generator answers with in a run. *)
RunTexts ==
    {<<"FILE:", "SP", "a", ".py", "NL", "FENCE", "python", "NL", "print", "NL", "FENCE">>,
     <<"FILE:", "SP", "a", ".py", "NL", "FENCE", "python", "NL", "SYNTAXERR", "NL", "FENCE">>,
     <<"FENCE", "python", "NL", "import", "SP", "x", "NL", "FENCE">>,
     <<"FILE:", "SP", "requirements", ".txt", "NL", "FENCE", "NL", "x", "NL", "FENCE">>,
     <<"x", "NL">>}

(* lines 82-85: generate_code_changes, then the call of make_code_changes *)
RGenerate ==
    /\ pc = "r_generate"
    /\ \E ok \in BOOLEAN :
         IF ok
         THEN /\ changes_description' \in RunTexts
              /\ m_outcome' = "running"
              /\ pc' = "m_entry"
              /\ UNCHANGED pending
         ELSE /\ RunThrow("RuntimeError")
              /\ UNCHANGED <<changes_description, m_outcome>>
    /\ UNCHANGED <<flags, cwd, original_dir, repo_state, venv, ops,
                   deps_installed, tests_passed, r_outcome, created_files, disk,
                   raised, matches, m_idx, m_written>>
    /\ UNCHANGED testIdle
    /\ UNCHANGED extVars

(* line 85: make_code_changes has returned or raised; lines 88 and 133-138 *)
RAfterMake ==
    /\ pc = "m_done"
    /\ r_outcome = "running"
    /\ IF m_outcome = "raised"
       THEN /\ RunThrow(raised)
            /\ raised' = "none"
       ELSE /\ pc' = IF flags.enable_testing /\ flags.create_venv
                     THEN "r_venv" ELSE "r_commit_gate"
            /\ UNCHANGED <<pending, raised>>
    /\ UNCHANGED <<flags, cwd, original_dir, repo_state, venv, ops,
                   deps_installed, tests_passed, r_outcome, created_files, disk,
                   changes_description>>
    /\ UNCHANGED subIdle
    /\ UNCHANGED extVars

(* lines 95-96, create_virtual_environment: an existing .venv is reused,
   otherwise python -m venv; CalledProcessError is raised again, and an
   interpreter that cannot be started raises OSError *)
RVenv ==
    /\ pc = "r_venv"
    /\ \E result \in VenvResults :
         LET r == create_virtual_environment(venv, result)
         IN  /\ venv' = r.exists
             /\ ops' = ops \o r.issued
             /\ IF r.ret = "path"
                THEN pc' = "r_install" /\ UNCHANGED pending
                ELSE TestingThrow(r.ret)
    /\ UNCHANGED <<flags, cwd, original_dir, repo_state, deps_installed,
                   tests_passed, r_outcome, created_files, disk, raised,
                   changes_description>>
    /\ UNCHANGED subIdle
    /\ UNCHANGED extVars

(* The validation and the manifest do not wait for the installation. *)
TestsRunAlways(installed) == TRUE

(* line 101: if deps_installed *)
TestsRun(installed) == installed

(* lines 99-103 and 127-128, install_dependencies, then the call of
   test_generated_code when it returned True *)
RInstall ==
    /\ pc = "r_install"
    /\ \E python_ok \in BOOLEAN, upgrade_ok \in BOOLEAN, install_ok \in BOOLEAN,
          failing \in RunFailing :
         LET r == install_dependencies(Exists(disk, Manifest), python_ok,
                                       upgrade_ok, install_ok, failing)
         IN  /\ ops' = ops \o r.issued
             /\ IF r.ret = "OSError"
                THEN /\ TestingThrow("OSError")
                     /\ UNCHANGED <<deps_installed, t_outcome>>
                ELSE /\ deps_installed' = (r.ret = "True")
                     /\ UNCHANGED pending
                     /\ IF TestsRun(r.ret = "True")
                        THEN /\ pc' = "t_entry"
                             /\ t_outcome' = "running"
                        ELSE /\ pc' = "r_commit_gate"
                             /\ UNCHANGED t_outcome
    /\ UNCHANGED <<flags, cwd, original_dir, repo_state, venv, tests_passed,
                   r_outcome, created_files, disk, raised,
                   changes_description, matches, m_idx, m_written, m_outcome>>
    /\ UNCHANGED <<idx, all_tests_passed, code, cur, test_success, proc,
                   reports, events, t_ret>>
    /\ UNCHANGED extVars

(* line 103: test_generated_code has returned or raised *)
RAfterTest ==
    /\ pc = "t_done"
    /\ r_outcome = "running"
    /\ IF t_outcome = "raised"
       THEN /\ TestingThrow(raised)
            /\ raised' = "none"
            /\ UNCHANGED tests_passed
       ELSE /\ tests_passed' = t_ret
            /\ pc' = "r_requirements"
            /\ UNCHANGED <<pending, raised>>
    /\ UNCHANGED <<flags, cwd, original_dir, repo_state, venv, ops,
                   deps_installed, r_outcome, created_files, disk,
                   changes_description>>
    /\ UNCHANGED subIdle
    /\ UNCHANGED extVars

(* line 106, create_requirements_file: pip freeze, whose failure is caught
   inside, then open(requirements_path, "w"), whose failure is not *)
RRequirements ==
    /\ pc = "r_requirements"
    /\ \E freeze_ok \in BOOLEAN, write_ok \in BOOLEAN :
         IF ~freeze_ok
         THEN /\ ops' = Append(ops, "pip_freeze_failed")
              /\ pc' = "r_strict"
              /\ UNCHANGED <<disk, pending>>
         ELSE IF write_ok
         THEN /\ ops' = Append(ops, "pip_freeze")
              /\ disk' = WriteFile(disk, Manifest, <<"freeze">>)
              /\ pc' = "r_strict"
              /\ UNCHANGED pending
         ELSE /\ ops' = Append(ops, "pip_freeze")
              /\ TestingThrow("OSError")
              /\ UNCHANGED disk
    /\ UNCHANGED <<flags, cwd, original_dir, repo_state, venv, deps_installed,
                   tests_passed, r_outcome, created_files, raised,
                   changes_description>>
    /\ UNCHANGED subIdle
    /\ UNCHANGED extVars

(* lines 108-126: sys.exit(1) raises SystemExit *)
RStrict ==
    /\ pc = "r_strict"
    /\ IF ~tests_passed /\ flags.strict_testing
       THEN TestingThrow("SystemExit")
       ELSE pc' = "r_commit_gate" /\ UNCHANGED pending
    /\ UNCHANGED <<flags, cwd, original_dir, repo_state, venv, ops,
                   deps_installed, tests_passed, r_outcome, created_files, disk,
                   raised, changes_description>>
    /\ UNCHANGED subIdle
    /\ UNCHANGED extVars

CommitsAlways(commit_changes) == TRUE

(* line 141: if commit_changes *)
Commits(commit_changes) == commit_changes

(* lines 141 and 182-192 *)
RCommitGate ==
    /\ pc = "r_commit_gate"
    /\ pc' = IF Commits(flags.commit_changes) THEN "r_add" ELSE "r_finally"
    /\ UNCHANGED <<runVars, created_files, disk, raised, changes_description>>
    /\ UNCHANGED subIdle
    /\ UNCHANGED extVars

(* line 148: git add . *)
RAdd ==
    /\ pc = "r_add"
    /\ \E ok \in BOOLEAN :
         IF ok
         THEN /\ ops' = Append(ops, "add")
              /\ pc' = "r_commit"
              /\ UNCHANGED pending
         ELSE /\ ops' = Append(ops, "add_failed")
              /\ RunThrow("CalledProcessError")
    /\ UNCHANGED <<flags, cwd, original_dir, repo_state, venv, deps_installed,
                   tests_passed, r_outcome, created_files, disk, raised,
                   changes_description>>
    /\ UNCHANGED subIdle
    /\ UNCHANGED extVars

(* lines 149-155 and 177-192: git commit *)
RCommit ==
    /\ pc = "r_commit"
    /\ \E ok \in BOOLEAN :
         IF ok
         THEN /\ ops' = Append(ops, "commit")
              /\ pc' = IF flags.create_pr THEN "r_push" ELSE "r_finally"
              /\ UNCHANGED pending
         ELSE /\ ops' = Append(ops, "commit_failed")
              /\ RunThrow("CalledProcessError")
    /\ UNCHANGED <<flags, cwd, original_dir, repo_state, venv, deps_installed,
                   tests_passed, r_outcome, created_files, disk, raised,
                   changes_description>>
    /\ UNCHANGED subIdle
    /\ UNCHANGED extVars

(* lines 156-158 and 169-176: git push *)
RPush ==
    /\ pc = "r_push"
    /\ \E ok \in BOOLEAN :
         IF ok
         THEN /\ ops' = Append(ops, "push")
              /\ pc' = "r_pr"
              /\ UNCHANGED pending
         ELSE /\ ops' = Append(ops, "push_failed")
              /\ IF PushHandlerCatches("CalledProcessError")
                 THEN pc' = "r_finally" /\ UNCHANGED pending
                 ELSE RunThrow("CalledProcessError")
    /\ UNCHANGED <<flags, cwd, original_dir, repo_state, venv, deps_installed,
                   tests_passed, r_outcome, created_files, disk, raised,
                   changes_description>>
    /\ UNCHANGED subIdle
    /\ UNCHANGED extVars

(* lines 161-167 and 192: create_pr_with_composio, which catches its own
   exceptions *)
RCreatePR ==
    /\ pc = "r_pr"
    /\ \E ok \in BOOLEAN :
         ops' = Append(ops, IF ok THEN "pr" ELSE "pr_failed")
    /\ pc' = "r_finally"
    /\ UNCHANGED <<flags, cwd, original_dir, repo_state, venv, deps_installed,
                   tests_passed, pending, r_outcome, created_files, disk, raised,
                   changes_description>>
    /\ UNCHANGED subIdle
    /\ UNCHANGED extVars

(* lines 199-201: os.chdir(original_dir); original_dir is unbound when the
   try block was left before line 62 *)
RFinally ==
    /\ pc = "r_finally"
    /\ IF original_dir = "unbound"
       THEN /\ r_outcome' = "raised"
            /\ raised' = "UnboundLocalError"
            /\ UNCHANGED cwd
       ELSE /\ cwd' = original_dir
            /\ r_outcome' = IF pending = "none" THEN "returned" ELSE "raised"
            /\ raised' = pending
    /\ pending' = "none"
    /\ pc' = "r_done"
    /\ UNCHANGED <<flags, original_dir, repo_state, venv, ops, deps_installed,
                   tests_passed, created_files, disk, changes_description>>
    /\ UNCHANGED subIdle
    /\ UNCHANGED extVars

NextRun ==
    \/ RClone \/ RChdir \/ RStatus \/ RBranch \/ RGenerate
    \/ MParse \/ MFallbackScript \/ MFallbackDoc \/ MWrite \/ MReturn
    \/ RAfterMake \/ RVenv \/ RInstall
    \/ TEntry \/ TSkip \/ TBegin \/ TRead \/ TCompile
    \/ WRead \/ WGenerate
    \/ TVerdict \/ TReturn
    \/ RAfterTest \/ RRequirements \/ RStrict
    \/ RCommitGate \/ RAdd \/ RCommit \/ RPush \/ RCreatePR \/ RFinally

(* A call of run with any flags, on a repository path that is absent, holds
   a git repository or holds something else. *)
InitRun ==
    /\ pc = "r_clone"
    /\ flags \in [enable_testing : BOOLEAN, create_venv : BOOLEAN,
                  strict_testing : BOOLEAN, commit_changes : BOOLEAN,
                  create_pr : BOOLEAN]
    /\ cwd = "entry"
    /\ original_dir = "unbound"
    /\ repo_state \in {"absent", "valid", "invalid"}
    /\ venv \in {FALSE, repo_state = "valid"}
    /\ disk \in {<<>>, [f \in {Manifest} |-> <<"deps">>]}
    /\ ops = <<>>
    /\ deps_installed = FALSE
    /\ tests_passed = FALSE
    /\ pending = "none"
    /\ r_outcome = "running"
    /\ raised = "none"
    /\ created_files = <<>>
    /\ changes_description = <<>>
    /\ matches = <<>>
    /\ m_idx = 0
    /\ m_written = <<>>
    /\ m_outcome = "idle"
    /\ idx = 0
    /\ all_tests_passed = TRUE
    /\ code = <<>>
    /\ cur = NoCur
    /\ test_success = FALSE
    /\ proc = NoProc
    /\ reports = <<>>
    /\ events = <<>>
    /\ t_outcome = "idle"
    /\ t_ret = FALSE
    /\ e_calls = 0
    /\ e_last = NoCall
    /\ session = NoSession
    /\ status_log = <<>>
    /\ phase_log = <<>>
    /\ workflow_sessions = <<>>
    /\ o_pending = "none"
    /\ o_outcome = "idle"
    /\ o_ret = NoSession
    /\ b_msgs = <<>>
    /\ b_pc = <<>>
    /\ b_run = <<>>
    /\ b_sent = <<>>
    /\ b_starts = <<>>

SpecRun == InitRun /\ [][NextRun]_vars

----------------------------------------------------------------------------
(* Calls of the functions of src/src/environment_manager.py, in any order, on
   one working directory *)

(* What these calls leave alone. *)
envIdle ==
    <<pc, created_files, idx, all_tests_passed, code, cur, test_success, proc,
      reports, events, t_outcome, t_ret, raised, genVars, flags, cwd,
      original_dir, repo_state, deps_installed, tests_passed, pending,
      r_outcome, orchVars, botVars>>

(* create_virtual_environment(repo_path) *)
ECreateVenv ==
    /\ pc = "e_idle"
    /\ e_calls < MaxCalls
    /\ \E result \in VenvResults :
         LET r == create_virtual_environment(venv, result)
         IN  /\ venv' = r.exists
             /\ ops' = ops \o r.issued
             /\ e_last' = [fn |-> "create_virtual_environment",
                           existed |-> venv, ret |-> r.ret, issued |-> r.issued]
    /\ e_calls' = e_calls + 1
    /\ UNCHANGED disk
    /\ UNCHANGED envIdle

(* install_dependencies(repo_path, venv_python) *)
EInstall ==
    /\ pc = "e_idle"
    /\ e_calls < MaxCalls
    /\ \E python_ok \in BOOLEAN, upgrade_ok \in BOOLEAN, install_ok \in BOOLEAN,
          failing \in SUBSET Range(CommonDeps) :
         LET r == install_dependencies(Exists(disk, Manifest), python_ok,
                                       upgrade_ok, install_ok, failing)
         IN  /\ ops' = ops \o r.issued
             /\ e_last' = [fn |-> "install_dependencies",
                           had_manifest |-> Exists(disk, Manifest),
                           python_ok |-> python_ok, upgrade_ok |-> upgrade_ok,
                           install_ok |-> install_ok, failing |-> failing,
                           ret |-> r.ret, issued |-> r.issued]
    /\ e_calls' = e_calls + 1
    /\ UNCHANGED <<venv, disk>>
    /\ UNCHANGED envIdle

(* create_requirements_file(repo_path, venv_python), lines 103-127: pip
   freeze, whose non-zero exit is caught, then the manifest is written *)
ERequirements ==
    /\ pc = "e_idle"
    /\ e_calls < MaxCalls
    /\ \E freeze_ok \in BOOLEAN, write_ok \in BOOLEAN :
         LET issued == <<IF freeze_ok THEN "pip_freeze" ELSE "pip_freeze_failed">>
         IN  /\ ops' = ops \o issued
             /\ disk' = IF freeze_ok /\ write_ok
                        THEN WriteFile(disk, Manifest, <<"freeze">>)
                        ELSE disk
             /\ e_last' = [fn |-> "create_requirements_file",
                           ret |-> IF freeze_ok /\ ~write_ok
                                   THEN "OSError" ELSE "None",
                           issued |-> issued]
    /\ e_calls' = e_calls + 1
    /\ UNCHANGED venv
    /\ UNCHANGED envIdle

NextEnv == ECreateVenv \/ EInstall \/ ERequirements

(* A working directory with or without .venv and requirements.txt. *)
InitEnv ==
    /\ pc = "e_idle"
    /\ venv \in BOOLEAN
    /\ disk \in {<<>>, [f \in {Manifest} |-> <<"deps">>]}
    /\ ops = <<>>
    /\ e_calls = 0
    /\ e_last = NoCall
    /\ session = NoSession
    /\ status_log = <<>>
    /\ phase_log = <<>>
    /\ workflow_sessions = <<>>
    /\ o_pending = "none"
    /\ o_outcome = "idle"
    /\ o_ret = NoSession
    /\ b_msgs = <<>>
    /\ b_pc = <<>>
    /\ b_run = <<>>
    /\ b_sent = <<>>
    /\ b_starts = <<>>
    /\ created_files = <<>>
    /\ idx = 0
    /\ all_tests_passed = TRUE
    /\ code = <<>>
    /\ cur = NoCur
    /\ test_success = FALSE
    /\ proc = NoProc
    /\ reports = <<>>
    /\ events = <<>>
    /\ t_outcome = "idle"
    /\ t_ret = FALSE
    /\ raised = "none"
    /\ changes_description = <<>>
    /\ matches = <<>>
    /\ m_idx = 0
    /\ m_written = <<>>
    /\ m_outcome = "idle"
    /\ flags = NoFlags
    /\ cwd = "repo"
    /\ original_dir = "unbound"
    /\ repo_state = "valid"
    /\ deps_installed = FALSE
    /\ tests_passed = FALSE
    /\ pending = "none"
    /\ r_outcome = "idle"

SpecEnv == InitEnv /\ [][NextEnv]_vars

----------------------------------------------------------------------------
(* run_complete_workflow, src/src/agents/workflow_orchestrator_agent.py *)

(* What the other variables keep while the orchestrator runs. *)
orchIdle ==
    <<testVars, genVars, cwd, original_dir, repo_state, venv, ops,
      deps_installed, tests_passed, pending, r_outcome, envVars, botVars>>

(* What a call made by a phase can raise; KeyboardInterrupt is no subclass
   of Exception. *)
PhaseRaises == {"RuntimeError", "KeyboardInterrupt"}

OrchHandlerCatches(e) == IsException(e)

Phase(name, ret, why) == [phase |-> name, ret |-> ret, why |-> why]

(* _setup_environment_and_test (lines 335-398): the value it returns, whether
   it recorded the phase in the session, and what went wrong: the sandbox was
   not created, an exception was caught at line 395, the tests failed, or
   they were skipped. *)
_setup_environment_and_test(venv_ok, deps, has_files, tests_ok, strict, raises) ==
    IF raises THEN [ret |-> TRUE, recorded |-> FALSE, why |-> "exception"]
    ELSE IF ~venv_ok THEN [ret |-> FALSE, recorded |-> FALSE, why |-> "venv"]
    ELSE IF deps /\ has_files /\ ~tests_ok
    THEN IF strict
         THEN [ret |-> FALSE, recorded |-> FALSE, why |-> "tests"]
         ELSE [ret |-> TRUE, recorded |-> TRUE, why |-> "tests"]
    ELSE [ret |-> TRUE, recorded |-> TRUE,
          why |-> IF ~deps THEN "install"
                  ELSE IF ~has_files THEN "no_files" ELSE "none"]

(* _commit_and_push (lines 400-457) *)
_commit_and_push(commit_success, create_pr, has_branch, push_ok, pr_ok) ==
    IF ~commit_success
    THEN [ret |-> FALSE, recorded |-> FALSE, why |-> "commit"]
    ELSE [ret |-> TRUE, recorded |-> TRUE,
          why |-> IF create_pr /\ ~(has_branch /\ push_ok /\ pr_ok)
                  THEN "no_pr" ELSE "none"]

(* The testing phase never ends the workflow. *)
TestingAbortsNever(test_passed, strict) == FALSE

(* line 135: if not test_passed and strict_testing *)
TestingAborts(test_passed, strict) == ~test_passed /\ strict

(* BaseAgent.execute_with_tracking: it returns what the operation returned;
   an exception of class Exception is logged and None returned, anything
   else leaves it. *)
execute_with_tracking(op_result, op_raised) ==
    IF op_raised = "none" THEN [ret |-> op_result, raised |-> "none"]
    ELSE IF IsException(op_raised) THEN [ret |-> NoSession, raised |-> "none"]
    ELSE [ret |-> NoSession, raised |-> op_raised]

(* session["status"] = "failed"; session["error"] = ...; return session *)
OFail(msg) ==
    /\ session' = [session EXCEPT !.status = "failed", !.error = msg]
    /\ status_log' = Append(status_log, "failed")
    /\ o_pending' = "return"
    /\ pc' = "o_finally"

(* An exception reaches the handler of line 167; the finally clause runs
   next, with the exception in flight if the handler did not catch it. *)
OThrow(e) ==
    IF OrchHandlerCatches(e)
    THEN OFail(e)
    ELSE /\ o_pending' = e
         /\ pc' = "o_finally"
         /\ UNCHANGED <<session, status_log>>

(* lines 91-100, and _initialize_workflow_session, lines 185-223 *)
OInit ==
    /\ pc = "o_init"
    /\ session' = [status |-> "running", error |-> "none", phases |-> {}]
    /\ o_outcome' = "running"
    /\ pc' = "o_repository"
    /\ UNCHANGED <<status_log, phase_log, workflow_sessions, o_pending, o_ret>>
    /\ UNCHANGED <<flags, orchIdle>>

(* lines 103-111, with _setup_repository, lines 261-310 *)
ORepository ==
    /\ pc = "o_repository"
    /\ \/ /\ phase_log' = Append(phase_log, Phase("repository_setup", "ok", "none"))
          /\ session' = [session EXCEPT !.phases = @ \cup {"repository_setup"}]
          /\ pc' = "o_generate"
          /\ UNCHANGED <<status_log, o_pending>>
       \/ /\ phase_log' = Append(phase_log, Phase("repository_setup", "failed", "none"))
          /\ OFail("Repository setup failed")
       \/ \E e \in PhaseRaises :
          /\ phase_log' = Append(phase_log, Phase("repository_setup", "raised", e))
          /\ OThrow(e)
    /\ UNCHANGED <<workflow_sessions, o_outcome, o_ret>>
    /\ UNCHANGED <<flags, orchIdle>>

(* lines 113-124, with _generate_code, lines 312-333 *)
OGenerate ==
    /\ pc = "o_generate"
    /\ \/ /\ phase_log' = Append(phase_log, Phase("code_generation", "ok", "none"))
          /\ session' = [session EXCEPT !.phases = @ \cup {"code_generation"}]
          /\ pc' = "o_test"
          /\ UNCHANGED <<status_log, o_pending>>
       \/ /\ phase_log' = Append(phase_log, Phase("code_generation", "failed", "none"))
          /\ OFail("Code generation failed")
       \/ \E e \in PhaseRaises :
          /\ phase_log' = Append(phase_log, Phase("code_generation", "raised", e))
          /\ OThrow(e)
    /\ UNCHANGED <<workflow_sessions, o_outcome, o_ret>>
    /\ UNCHANGED <<flags, orchIdle>>

(* lines 126-138 *)
OTest ==
    /\ pc = "o_test"
    /\ IF flags.enable_testing /\ flags.create_venv
       THEN \/ \E venv_ok \in BOOLEAN, deps \in BOOLEAN, has_files \in BOOLEAN,
                  tests_ok \in BOOLEAN, raises \in BOOLEAN :
                 LET r == _setup_environment_and_test(
                              venv_ok, deps, has_files, tests_ok,
                              flags.strict_testing, raises)
                 IN  /\ phase_log' = Append(phase_log,
                            Phase("environment_and_testing",
                                  IF r.ret THEN "ok" ELSE "failed", r.why))
                     /\ IF TestingAborts(r.ret, flags.strict_testing)
                        THEN OFail("Tests failed in strict mode")
                        ELSE /\ session' =
                                  [session EXCEPT !.phases =
                                      IF r.recorded
                                      THEN @ \cup {"environment_and_testing"}
                                      ELSE @]
                             /\ pc' = "o_commit"
                             /\ UNCHANGED <<status_log, o_pending>>
            \/ /\ phase_log' = Append(phase_log,
                      Phase("environment_and_testing", "raised", "KeyboardInterrupt"))
               /\ OThrow("KeyboardInterrupt")
       ELSE /\ pc' = "o_commit"
            /\ UNCHANGED <<session, status_log, phase_log, o_pending>>
    /\ UNCHANGED <<workflow_sessions, o_outcome, o_ret>>
    /\ UNCHANGED <<flags, orchIdle>>

(* lines 140-153 *)
OCommit ==
    /\ pc = "o_commit"
    /\ IF flags.commit_changes
       THEN \/ \E commit_success \in BOOLEAN, has_branch \in BOOLEAN,
                  push_ok \in BOOLEAN, pr_ok \in BOOLEAN :
                 LET r == _commit_and_push(commit_success, flags.create_pr,
                                           has_branch, push_ok, pr_ok)
                 IN  /\ phase_log' = Append(phase_log,
                            Phase("git_operations",
                                  IF r.ret THEN "ok" ELSE "failed", r.why))
                     /\ IF ~r.ret
                        THEN OFail("Git operations failed")
                        ELSE /\ session' = [session EXCEPT
                                               !.phases = @ \cup {"git_operations"}]
                             /\ pc' = "o_complete"
                             /\ UNCHANGED <<status_log, o_pending>>
            \/ \E e \in PhaseRaises :
               /\ phase_log' = Append(phase_log, Phase("git_operations", "raised", e))
               /\ OThrow(e)
       ELSE /\ pc' = "o_complete"
            /\ UNCHANGED <<session, status_log, phase_log, o_pending>>
    /\ UNCHANGED <<workflow_sessions, o_outcome, o_ret>>
    /\ UNCHANGED <<flags, orchIdle>>

(* lines 155-165 *)
OComplete ==
    /\ pc = "o_complete"
    /\ session' = [session EXCEPT !.status = "completed"]
    /\ status_log' = Append(status_log, "completed")
    /\ o_pending' = "return"
    /\ pc' = "o_finally"
    /\ UNCHANGED <<phase_log, workflow_sessions, o_outcome, o_ret>>
    /\ UNCHANGED <<flags, orchIdle>>

(* lines 174-179 *)
OFinally ==
    /\ pc = "o_finally"
    /\ workflow_sessions' = Append(workflow_sessions, session)
    /\ pc' = "o_track"
    /\ UNCHANGED <<session, status_log, phase_log, o_pending, o_outcome, o_ret>>
    /\ UNCHANGED <<flags, orchIdle>>

(* lines 180-183: execute_with_tracking(...) or {} *)
OTrack ==
    /\ pc = "o_track"
    /\ LET r == IF o_pending = "return"
                THEN execute_with_tracking(session, "none")
                ELSE execute_with_tracking(NoSession, o_pending)
       IN  IF r.raised = "none"
           THEN /\ o_ret' = r.ret
                /\ o_outcome' = "returned"
           ELSE /\ o_outcome' = "raised"
                /\ UNCHANGED o_ret
    /\ pc' = "o_done"
    /\ UNCHANGED <<session, status_log, phase_log, workflow_sessions, o_pending>>
    /\ UNCHANGED <<flags, orchIdle>>

NextOrch ==
    \/ OInit \/ ORepository \/ OGenerate \/ OTest \/ OCommit \/ OComplete
    \/ OFinally \/ OTrack

(* A call of run_complete_workflow with any flags. *)
InitOrch ==
    /\ pc = "o_init"
    /\ flags \in [enable_testing : BOOLEAN, create_venv : BOOLEAN,
                  strict_testing : BOOLEAN, commit_changes : BOOLEAN,
                  create_pr : BOOLEAN]
    /\ session = NoSession
    /\ status_log = <<>>
    /\ phase_log = <<>>
    /\ workflow_sessions = <<>>
    /\ o_pending = "none"
    /\ o_outcome = "idle"
    /\ o_ret = NoSession
    /\ b_msgs = <<>>
    /\ b_pc = <<>>
    /\ b_run = <<>>
    /\ b_sent = <<>>
    /\ b_starts = <<>>
    /\ e_calls = 0
    /\ e_last = NoCall
    /\ venv = FALSE
    /\ disk = <<>>
    /\ ops = <<>>
    /\ created_files = <<>>
    /\ idx = 0
    /\ all_tests_passed = TRUE
    /\ code = <<>>
    /\ cur = NoCur
    /\ test_success = FALSE
    /\ proc = NoProc
    /\ reports = <<>>
    /\ events = <<>>
    /\ t_outcome = "idle"
    /\ t_ret = FALSE
    /\ raised = "none"
    /\ changes_description = <<>>
    /\ matches = <<>>
    /\ m_idx = 0
    /\ m_written = <<>>
    /\ m_outcome = "idle"
    /\ cwd = "entry"
    /\ original_dir = "unbound"
    /\ repo_state = "valid"
    /\ deps_installed = FALSE
    /\ tests_passed = FALSE
    /\ pending = "none"
    /\ r_outcome = "idle"

SpecOrch == InitOrch /\ [][NextOrch]_vars

----------------------------------------------------------------------------
(* OrionClient.on_message, src/src/discord_integration.py: one coroutine per
   delivered message on the event loop, one worker thread per call of run *)

(* What the other variables keep while the client runs. *)
botIdle ==
    <<testVars, genVars, cwd, original_dir, repo_state, venv, ops,
      deps_installed, tests_passed, pending, r_outcome, envVars, orchVars>>

Msgs == 1..MaxMsgs

(* A message: whether the client itself wrote it, and whether its content is
   empty once stripped. *)
MsgKinds == [own : BOOLEAN, empty : BOOLEAN]

(* How a call of run(...) ends: it returns, or an exception leaves it, which
   is SystemExit (workflow.py line 120) only when strict testing is on. *)
RunEnds(f) ==
    {"returned", "UnboundLocalError"} \cup
    IF f.enable_testing /\ f.create_venv /\ f.strict_testing
    THEN {"SystemExit"} ELSE {}

(* line 166: except Exception as e *)
MessageHandlerCatches(e) == IsException(e)

(* An exception is raised inside the try of lines 62-164. *)
BThrow(m, e) ==
    b_pc' = [b_pc EXCEPT ![m] = IF MessageHandlerCatches(e) THEN "b_error"
                                ELSE "b_raised"]

(* lines 56-60 *)
BReceive(m) ==
    /\ b_pc[m] = "b_entry"
    /\ b_pc' = [b_pc EXCEPT ![m] = IF b_msgs[m].own \/ b_msgs[m].empty
                                   THEN "b_returned" ELSE "b_status"]
    /\ UNCHANGED <<b_msgs, b_run, b_sent, b_starts>>
    /\ UNCHANGED <<pc, flags, botIdle>>

(* lines 63-81: await message.channel.send(status_msg) *)
BStatus(m) ==
    /\ b_pc[m] = "b_status"
    /\ \E ok \in BOOLEAN :
          IF ok
          THEN /\ b_sent' = [b_sent EXCEPT ![m] = Append(@, "status")]
               /\ b_pc' = [b_pc EXCEPT ![m] = "b_progress"]
          ELSE /\ BThrow(m, "HTTPException")
               /\ UNCHANGED b_sent
    /\ UNCHANGED <<b_msgs, b_run, b_starts>>
    /\ UNCHANGED <<pc, flags, botIdle>>

(* lines 84-92: progress_message = await message.channel.send(progress_msg) *)
BProgress(m) ==
    /\ b_pc[m] = "b_progress"
    /\ \E ok \in BOOLEAN :
          IF ok
          THEN /\ b_sent' = [b_sent EXCEPT ![m] = Append(@, "progress")]
               /\ b_pc' = [b_pc EXCEPT ![m] = "b_submit"]
          ELSE /\ BThrow(m, "HTTPException")
               /\ UNCHANGED b_sent
    /\ UNCHANGED <<b_msgs, b_run, b_starts>>
    /\ UNCHANGED <<pc, flags, botIdle>>

(* lines 95-107: loop.run_in_executor(None, run, ...) hands run to a thread of
   the default pool and the coroutine waits for it *)
BSubmit(m) ==
    /\ b_pc[m] = "b_submit"
    /\ b_run' = [b_run EXCEPT ![m] = "active"]
    /\ b_starts' = [b_starts EXCEPT ![m] = @ + 1]
    /\ b_pc' = [b_pc EXCEPT ![m] = "b_await"]
    /\ UNCHANGED <<b_msgs, b_sent>>
    /\ UNCHANGED <<pc, flags, botIdle>>

(* The worker thread: run returns or raises. *)
BRunEnds(m) ==
    /\ b_run[m] = "active"
    /\ \E r \in RunEnds(flags) : b_run' = [b_run EXCEPT ![m] = r]
    /\ UNCHANGED <<b_msgs, b_pc, b_sent, b_starts>>
    /\ UNCHANGED <<pc, flags, botIdle>>

(* line 96: the await ends with the value or the exception of run *)
BResume(m) ==
    /\ b_pc[m] = "b_await"
    /\ b_run[m] \notin {"none", "active"}
    /\ IF b_run[m] = "returned"
       THEN b_pc' = [b_pc EXCEPT ![m] = "b_delete"]
       ELSE BThrow(m, b_run[m])
    /\ UNCHANGED <<b_msgs, b_run, b_sent, b_starts>>
    /\ UNCHANGED <<pc, flags, botIdle>>

(* lines 110-113: a failure to delete the progress message is ignored *)
BDelete(m) ==
    /\ b_pc[m] = "b_delete"
    /\ \E ok \in BOOLEAN :
          b_sent' = [b_sent EXCEPT ![m] =
                        IF ok THEN SelectSeq(@, LAMBDA k : k # "progress") ELSE @]
    /\ b_pc' = [b_pc EXCEPT ![m] = "b_complete"]
    /\ UNCHANGED <<b_msgs, b_run, b_starts>>
    /\ UNCHANGED <<pc, flags, botIdle>>

(* lines 116-164: await message.channel.send(completion_msg) *)
BComplete(m) ==
    /\ b_pc[m] = "b_complete"
    /\ \E ok \in BOOLEAN :
          IF ok
          THEN /\ b_sent' = [b_sent EXCEPT ![m] = Append(@, "completion")]
               /\ b_pc' = [b_pc EXCEPT ![m] = "b_returned"]
          ELSE /\ BThrow(m, "HTTPException")
               /\ UNCHANGED b_sent
    /\ UNCHANGED <<b_msgs, b_run, b_starts>>
    /\ UNCHANGED <<pc, flags, botIdle>>

(* lines 166-178: the handler sends the error message; an exception raised
   here leaves on_message *)
BError(m) ==
    /\ b_pc[m] = "b_error"
    /\ \E ok \in BOOLEAN :
          IF ok
          THEN /\ b_sent' = [b_sent EXCEPT ![m] = Append(@, "error")]
               /\ b_pc' = [b_pc EXCEPT ![m] = "b_returned"]
          ELSE /\ b_pc' = [b_pc EXCEPT ![m] = "b_raised"]
               /\ UNCHANGED b_sent
    /\ UNCHANGED <<b_msgs, b_run, b_starts>>
    /\ UNCHANGED <<pc, flags, botIdle>>

NextBot ==
    \E m \in Msgs :
        \/ BReceive(m) \/ BStatus(m) \/ BProgress(m) \/ BSubmit(m)
        \/ BRunEnds(m) \/ BResume(m) \/ BDelete(m) \/ BComplete(m) \/ BError(m)

(* A client with any testing configuration, to which messages of any kind
   are delivered. *)
InitBot ==
    /\ pc = "b_loop"
    /\ flags \in [enable_testing : BOOLEAN, create_venv : {TRUE},
                  strict_testing : BOOLEAN, commit_changes : {FALSE},
                  create_pr : {FALSE}]
    /\ b_msgs \in [Msgs -> MsgKinds]
    /\ b_pc = [m \in Msgs |-> "b_entry"]
    /\ b_run = [m \in Msgs |-> "none"]
    /\ b_sent = [m \in Msgs |-> <<>>]
    /\ b_starts = [m \in Msgs |-> 0]
    /\ session = NoSession
    /\ status_log = <<>>
    /\ phase_log = <<>>
    /\ workflow_sessions = <<>>
    /\ o_pending = "none"
    /\ o_outcome = "idle"
    /\ o_ret = NoSession
    /\ e_calls = 0
    /\ e_last = NoCall
    /\ venv = FALSE
    /\ disk = <<>>
    /\ ops = <<>>
    /\ created_files = <<>>
    /\ idx = 0
    /\ all_tests_passed = TRUE
    /\ code = <<>>
    /\ cur = NoCur
    /\ test_success = FALSE
    /\ proc = NoProc
    /\ reports = <<>>
    /\ events = <<>>
    /\ t_outcome = "idle"
    /\ t_ret = FALSE
    /\ raised = "none"
    /\ changes_description = <<>>
    /\ matches = <<>>
    /\ m_idx = 0
    /\ m_written = <<>>
    /\ m_outcome = "idle"
    /\ cwd = "entry"
    /\ original_dir = "unbound"
    /\ repo_state = "valid"
    /\ deps_installed = FALSE
    /\ tests_passed = FALSE
    /\ pending = "none"
    /\ r_outcome = "idle"

SpecBot == InitBot /\ [][NextBot]_vars

----------------------------------------------------------------------------
(* get_unique_branch_name, src/src/git_operations.py lines 49-94: a call
   with any branch listing *)

(* A branch name: base, or base-n for n >= 1. *)
Plain(base) == [base |-> base, n |-> 0]

Suffixed(base, counter) == [base |-> base, n |-> counter]

(* int(time.time()) of the fallback name *)
Timestamp == 1700000000

BranchNames ==
    {Suffixed("orion/x", k) : k \in 0..MaxSuffix} \cup {Plain("main")}

(* The lines "git branch -a" prints for the local branches, the checked-out
   one marked with a star, and for the branches of origin. *)
BranchLines(locals, current, remotes) ==
    {[star |-> (b = current), prefix |-> "", name |-> b] : b \in locals}
    \cup {[star |-> FALSE, prefix |-> "remotes/origin/", name |-> b] : b \in remotes}

(* line 71: if line and not line.startswith("*") *)
Skipped(line) == line.star

(* lines 68-75 *)
existing_branches(lines) == {l.name : l \in {x \in lines : ~Skipped(x)}}

(* lines 82-84: the while loop *)
RECURSIVE FreeCounter(_, _, _)
FreeCounter(base, existing, counter) ==
    IF Suffixed(base, counter) \in existing
    THEN FreeCounter(base, existing, counter + 1)
    ELSE counter

get_unique_branch_name(base, lines, listing_ok) ==
    IF ~listing_ok THEN Suffixed(base, Timestamp)
    ELSE IF Plain(base) \notin existing_branches(lines) THEN Plain(base)
    ELSE Suffixed(base, FreeCounter(base, existing_branches(lines), 1))

GUniqueBranch ==
    /\ pc = "g_idle"
    /\ e_calls = 0
    /\ \E locals \in SUBSET BranchNames \ {{}}, remotes \in SUBSET BranchNames,
          listing_ok \in BOOLEAN :
         \E current \in locals :
            e_last' = [fn |-> "get_unique_branch_name", base |-> "orion/x",
                       locals |-> locals, current |-> current,
                       remotes |-> remotes, listing_ok |-> listing_ok,
                       ret |-> get_unique_branch_name(
                                   "orion/x",
                                   BranchLines(locals, current, remotes),
                                   listing_ok)]
    /\ e_calls' = e_calls + 1
    /\ UNCHANGED <<venv, disk, ops>>
    /\ UNCHANGED envIdle

NextBranch == GUniqueBranch

InitBranch ==
    /\ pc = "g_idle"
    /\ venv = FALSE
    /\ disk = <<>>
    /\ ops = <<>>
    /\ e_calls = 0
    /\ e_last = NoCall
    /\ session = NoSession
    /\ status_log = <<>>
    /\ phase_log = <<>>
    /\ workflow_sessions = <<>>
    /\ o_pending = "none"
    /\ o_outcome = "idle"
    /\ o_ret = NoSession
    /\ b_msgs = <<>>
    /\ b_pc = <<>>
    /\ b_run = <<>>
    /\ b_sent = <<>>
    /\ b_starts = <<>>
    /\ created_files = <<>>
    /\ idx = 0
    /\ all_tests_passed = TRUE
    /\ code = <<>>
    /\ cur = NoCur
    /\ test_success = FALSE
    /\ proc = NoProc
    /\ reports = <<>>
    /\ events = <<>>
    /\ t_outcome = "idle"
    /\ t_ret = FALSE
    /\ raised = "none"
    /\ changes_description = <<>>
    /\ matches = <<>>
    /\ m_idx = 0
    /\ m_written = <<>>
    /\ m_outcome = "idle"
    /\ flags = NoFlags
    /\ cwd = "repo"
    /\ original_dir = "unbound"
    /\ repo_state = "valid"
    /\ deps_installed = FALSE
    /\ tests_passed = FALSE
    /\ pending = "none"
    /\ r_outcome = "idle"

SpecBranch == InitBranch /\ [][NextBranch]_vars

----------------------------------------------------------------------------
(* Properties of the validation runner. *)

TestReturned == pc = "t_done" /\ t_outcome = "returned"

EventsOf(kinds) == SelectSeq(events, LAMBDA v : v.op \in kinds)

IdxOf(seq) == {seq[k].idx : k \in 1..Len(seq)}

(* The candidates the loop has reached, in the order it reached them. *)
Visits == EventsOf({"begin", "skip"})

(* C3: when test_generated_code returns, its value is true exactly when every
   file it evaluated (every file it printed a verdict for) passed the syntax
   check and the harness execution; every evaluated file has one verdict; and
   for an empty candidate list it returns true having done nothing. *)
C3_AllPassedIsConjunction ==
    TestReturned =>
        /\ t_ret <=> \A k \in 1..Len(reports) :
                        reports[k].syntax_ok /\ reports[k].passed
        /\ IdxOf(EventsOf({"begin"})) = IdxOf(reports)
        /\ created_files = <<>> => t_ret /\ events = <<>> /\ reports = <<>>

C3_Witness ==
    /\ TestReturned
    /\ Len(reports) = 2
    /\ reports[1].syntax_ok /\ ~reports[1].passed
    /\ ~reports[2].syntax_ok
    /\ ~t_ret

(* C4: a file whose text fails the compile check has a failed verdict, makes
   the accumulator false, and has no harness generated, written or executed
   for it. *)
C4_SyntaxErrorSkipsHarness ==
    \A k \in 1..Len(reports) :
        CompileError(reports[k].src) # "none" =>
            /\ ~reports[k].passed
            /\ ~reports[k].syntax_ok
            /\ ~reports[k].written
            /\ ~reports[k].executed
            /\ reports[k].idx \notin
                  IdxOf(EventsOf({"generate", "write_wrapper", "exec"}))
            /\ ~all_tests_passed
            /\ TestReturned => ~t_ret

C4_Witness ==
    /\ TestReturned
    /\ \E k \in 1..Len(reports) : CompileError(reports[k].src) = "SyntaxError"

(* C5: when test_generated_code returns, the loop has reached every candidate
   of the list once, in list order, whatever happened to the earlier ones;
   a candidate was evaluated exactly when, at its turn, it was a .py file on
   disk, and the verdicts are one per evaluated candidate, in list order. *)
C5_EveryCandidateVisitedInOrder ==
    (TestReturned /\ created_files # <<>>) =>
        /\ Len(Visits) = Len(created_files)
        /\ \A k \in 1..Len(Visits) :
              /\ Visits[k].idx = k
              /\ (Visits[k].op = "begin") <=> (Visits[k].py /\ Visits[k].on_disk)
        /\ Len(reports) = Len(EventsOf({"begin"}))
        /\ \A k \in 1..Len(reports) : reports[k].idx = EventsOf({"begin"})[k].idx
        /\ Len(EventsOf({"compile"})) <= Len(EventsOf({"begin"}))

C5_Witness ==
    /\ TestReturned
    /\ Len(reports) = 2
    /\ ~reports[1].passed
    /\ reports[1].exit_reason = "exception"
    /\ reports[2].syntax_ok
    /\ reports[2].idx = 2

(* C6: test_generated_code never raises: no exception leaves it, and every
   exception met while evaluating a file is a failed verdict of that file. *)
C6_NeverRaises ==
    /\ raised = "none"
    /\ t_outcome # "raised"
    /\ pc = "t_done" => t_outcome = "returned"
    /\ \A k \in 1..Len(reports) :
          reports[k].exit_reason = "exception" => ~reports[k].passed

C6_Witness ==
    /\ TestReturned
    /\ Len(reports) = 2
    /\ reports[1].exit_reason = "exception"
    /\ ~reports[1].syntax_ok
    /\ reports[2].exit_reason = "exception"
    /\ reports[2].syntax_ok
    /\ reports[2].idx \in IdxOf(EventsOf({"generate"}))
    /\ ~t_ret

(* The verdicts of the files for which generate_test_wrapper was called:
   they passed the syntax check and were read again at line 86. *)
Wrapped ==
    {k \in 1..Len(reports) :
        reports[k].syntax_ok /\ reports[k].idx \in IdxOf(EventsOf({"generate"}))}

(* C7: a file whose script never ends gets a harness process, which is killed
   when the timeout expires, and a failed verdict with reason timeout. *)
C7_HangingScriptTimesOut ==
    \A k \in Wrapped :
        reports[k].src = <<"loop">> =>
            /\ reports[k].proc.state = "killed"
            /\ reports[k].exit_reason = "timeout"
            /\ ~reports[k].passed

(* C8: for a file that passed the syntax check the verdict is the one of its
   harness process: passed when the process exited with code 0 within the
   timeout, failed for a non-zero exit code or a timeout. *)
C8_PassedIffExitZero ==
    \A k \in Wrapped :
        /\ reports[k].exit_reason \in {"ok", "non_zero_exit", "timeout"}
        /\ reports[k].passed <=>
              (reports[k].proc.state = "exited" /\ reports[k].proc.rc = 0)

(* C9: a candidate that is no .py file, or is not on disk at its turn, is
   skipped: it is never compiled, wrapped or executed, gets no verdict, and
   the accumulator is false only when some evaluated file failed. *)
C9_SkippedNeverFails ==
    /\ \A k \in 1..Len(Visits) :
          (~Visits[k].py \/ ~Visits[k].on_disk) =>
              /\ Visits[k].op = "skip"
              /\ Visits[k].idx \notin
                    IdxOf(EventsOf({"compile", "write_wrapper", "exec"}))
              /\ Visits[k].idx \notin IdxOf(reports)
    /\ (pc # "t_entry" /\ ~all_tests_passed) =>
          \E k \in 1..Len(reports) : ~reports[k].passed
    /\ (TestReturned /\ ~t_ret) => \E k \in 1..Len(reports) : ~reports[k].passed

C9_Witness ==
    /\ TestReturned
    /\ t_ret
    /\ Len(created_files) = 2
    /\ \E k \in 1..Len(Visits) : Visits[k].op = "skip" /\ ~Visits[k].py
    /\ \E k \in 1..Len(Visits) :
          Visits[k].op = "skip" /\ Visits[k].py /\ ~Visits[k].on_disk

----------------------------------------------------------------------------
(* Properties of the patch extractor. *)

GenDone == pc = "m_done"

(* C10, as stated: for a text with at least one marker followed by a fenced
   block, the result has one file per match, in match order, whose path is
   the trimmed marker value and whose content on disk is the block body. *)
C10_OneFilePerMatch ==
    (GenDone /\ matches # <<>>) =>
        /\ Len(created_files) = Len(matches)
        /\ \A k \in 1..Len(created_files) :
              /\ k <= Len(matches)
              /\ created_files[k] = Strip(matches[k].name)
              /\ Exists(disk, created_files[k])
              /\ disk[created_files[k]] = matches[k].body

(* The last match written under the path of the j-th file of the result. *)
LastWritten(j) ==
    m_written[Max({i \in 1..Len(created_files) : created_files[i] = created_files[j]})]

(* C10, amended: for a text with at least one marker followed by a fenced
   block, make_code_changes returns one file per match whose write succeeded,
   in match order (so one per match when no write fails); each path is the
   trimmed marker value, with .py appended when it holds no dot; the content
   on disk under that path is the block body with leading and trailing white
   space removed, of the last match written under that path. *)
C10_OneFilePerWrittenMatch ==
    (GenDone /\ matches # <<>>) =>
        /\ m_outcome = "returned"
        /\ Len(created_files) = Len(m_written)
        /\ \A j \in 1..Len(m_written) :
              /\ m_written[j] \in 1..Len(matches)
              /\ j > 1 => m_written[j - 1] < m_written[j]
        /\ \A j \in 1..Len(created_files) :
              LET trimmed == Strip(matches[m_written[j]].name) IN
                /\ created_files[j] =
                      IF HasDot(trimmed) THEN trimmed ELSE trimmed \o <<".py">>
                /\ Exists(disk, created_files[j])
                /\ disk[created_files[j]] = Strip(matches[LastWritten(j)].body)

C10_Witness ==
    /\ GenDone
    /\ Len(matches) = 2
    /\ created_files = << <<"b", ".py">>, <<"a", ".py">> >>
    /\ matches[1].name = <<"b", "SP">>
    /\ disk[<<"a", ".py">>] # matches[2].body
    /\ disk[<<"b", ".py">>] = <<"x">>

(* The positions of the fences of a text. *)
C11_Fences == {i \in 1..Len(changes_description) : changes_description[i] = "FENCE"}

(* The text holds no file marker and exactly one fenced block, which holds an
   import statement. *)
C11_OneImportBlock ==
    /\ \A i \in 1..Len(changes_description) : changes_description[i] # "FILE:"
    /\ Cardinality(C11_Fences) = 2
    /\ \E i \in (Min(C11_Fences) + 1)..(Max(C11_Fences) - 1) :
         changes_description[i] = "import"

(* The body of that block: what follows the line of the opening fence, up to
   the closing fence. *)
C11_Block ==
    LET open == Min(C11_Fences)
        eol == Min({i \in open..Len(changes_description) :
                      changes_description[i] = "NL"})
    IN  SubSeq(changes_description, eol + 1, Max(C11_Fences) - 1)

(* C11: for a text with no file marker and one fenced block that holds an
   import statement, a call of make_code_changes that returns gives exactly
   one file, named clip_script.py, whose content is that block (surrounding
   white space aside), and writes no AI_SUGGESTED_CHANGES.md. *)
C11_SingleBlockFallback ==
    (GenDone /\ m_outcome = "returned" /\ C11_OneImportBlock) =>
        /\ created_files = <<ClipScript>>
        /\ Exists(disk, ClipScript)
        /\ disk[ClipScript] = Strip(C11_Block)
        /\ ~Exists(disk, DocFile)

(* C11 for the blocks that are tagged python or not tagged. *)
C11_SingleBlockFallbackPlainTag ==
    (/\ GenDone
     /\ m_outcome = "returned"
     /\ C11_OneImportBlock
     /\ changes_description[Min(C11_Fences) + 1] \in {"python", "NL"}) =>
        /\ created_files = <<ClipScript>>
        /\ Exists(disk, ClipScript)
        /\ disk[ClipScript] = Strip(C11_Block)
        /\ ~Exists(disk, DocFile)

(* The text holds no file marker, no python block, no other block with a
   keyword, and no line with a keyword. *)
C12_ProseOnly ==
    /\ \A i \in 1..Len(changes_description) : changes_description[i] # "FILE:"
    /\ FindBlocks(changes_description, 1, TRUE) = <<>>
    /\ LET code_blocks == FindBlocks(changes_description, 1, FALSE)
       IN  \A k \in 1..Len(code_blocks) :
             \A kw \in BlockKeywords : ~Contains(code_blocks[k], kw)
    /\ \A st \in LineStarts(changes_description) :
         \A kw \in LineKeywords : ~Contains(LineAt(changes_description, st), kw)

(* C12: for a text with no file marker, no qualifying fenced block and no
   line with an import, definition or entry-point keyword, a call of
   make_code_changes that returns gives exactly one file,
   AI_SUGGESTED_CHANGES.md, whose content is the text itself, verbatim. *)
C12_DocumentationFallback ==
    (GenDone /\ m_outcome = "returned" /\ C12_ProseOnly) =>
        /\ created_files = <<DocFile>>
        /\ Exists(disk, DocFile)
        /\ disk[DocFile] = changes_description

(* C13: make_code_changes never raises and never returns an empty list:
   for every text, and also when a write fails, a call that has ended has
   returned at least one file. *)
C13_NeverRaisesNeverEmpty ==
    GenDone => (m_outcome = "returned" /\ created_files # <<>>)

(* The part of C13 that holds: a call that raised was on a fallback path. *)
C13_RaisesOnlyOnFallback ==
    (GenDone /\ m_outcome = "raised") => (matches = <<>> /\ raised = "OSError")

----------------------------------------------------------------------------
(* Properties of run. *)

PublishOps ==
    {"add", "add_failed", "commit", "commit_failed", "push", "push_failed",
     "pr", "pr_failed"}

TestsReportedFailed ==
    /\ flags.enable_testing
    /\ flags.create_venv
    /\ t_outcome = "returned"
    /\ ~t_ret

RunEnded == pc = "r_done"

(* C1: in a run with enable_testing and create_venv set, once
   test_generated_code has reported failure: with strict_testing the run
   issues no git add, commit, push or pull request; without it the run goes
   on to the commit phase, so that a run with commit_changes that has ended
   has issued git add. *)
C1_StrictAbortsElseContinues ==
    TestsReportedFailed =>
        IF flags.strict_testing
        THEN \A k \in 1..Len(ops) : ops[k] \notin PublishOps
        ELSE (pc \in {"r_finally", "r_done"} /\ flags.commit_changes) =>
                 \E k \in 1..Len(ops) : ops[k] \in {"add", "add_failed"}

(* C2: run never propagates an exception to its caller: whatever phase
   fails, a run that has ended has returned normally. *)
C2_RunNeverPropagates == RunEnded => r_outcome = "returned"

(* python -m venv has exited non-zero. *)
SandboxFailed == \E k \in 1..Len(ops) : ops[k] = "venv_failed"

(* install_dependencies has returned False. *)
InstallFailed ==
    \E k \in 1..Len(ops) : ops[k] \in {"pip_upgrade_failed", "pip_manifest_failed"}

Published == \E k \in 1..Len(ops) : ops[k] \in PublishOps

(* C14: without strict_testing, when python -m venv exits non-zero or
   install_dependencies returns False, test_generated_code is not called and
   the run goes on to the commit phase: a run with commit_changes that has
   ended has issued git add. *)
C14_InfraFailureSkipsTesting ==
    (/\ flags.enable_testing
     /\ flags.create_venv
     /\ ~flags.strict_testing
     /\ (SandboxFailed \/ InstallFailed)) =>
        /\ t_outcome = "idle"
        /\ events = <<>>
        /\ (pc \in {"r_finally", "r_done"} /\ flags.commit_changes) =>
               \E k \in 1..Len(ops) : ops[k] \in {"add", "add_failed"}

(* A run whose sandbox could not be created has committed. *)
C14_Witness ==
    /\ RunEnded
    /\ ~flags.strict_testing
    /\ flags.commit_changes
    /\ SandboxFailed
    /\ \E k \in 1..Len(ops) : ops[k] = "commit"

(* C15: with strict_testing, when python -m venv exits non-zero or
   install_dependencies returns False, the run issues no git add, commit,
   push or pull request. *)
C15_InfraFailureFatalWhenStrict ==
    (/\ flags.enable_testing
     /\ flags.create_venv
     /\ flags.strict_testing
     /\ (SandboxFailed \/ InstallFailed)) => ~Published

----------------------------------------------------------------------------
(* Properties of the environment functions. *)

VenvCalled == e_last.fn = "create_virtual_environment"

InstallCalled == e_last.fn = "install_dependencies" /\ e_last.python_ok

(* C16: create_virtual_environment reuses an existing .venv: called when it
   exists, it returns the path and runs no command; after a call that
   returned, .venv exists; so over a sequence of calls on one working
   directory python -m venv succeeds at most once. *)
C16_VenvIdempotent ==
    /\ (VenvCalled /\ e_last.existed) =>
           (e_last.ret = "path" /\ e_last.issued = <<>>)
    /\ (VenvCalled /\ e_last.ret = "path") => venv
    /\ Cardinality({k \in 1..Len(ops) : ops[k] = "venv"}) <= 1

(* A second call found the .venv the first one created. *)
C16_Witness ==
    /\ VenvCalled
    /\ e_last.existed
    /\ e_calls = 2
    /\ ops = <<"venv">>

(* C17: install_dependencies returns False and runs nothing further when the
   pip upgrade exits non-zero; with a manifest it installs from the manifest
   and nothing else, and returns True exactly when that install succeeds. *)
C17_UpgradeOrManifestFailureReturnsFalse ==
    /\ (InstallCalled /\ ~e_last.upgrade_ok) =>
           (e_last.ret = "False" /\ e_last.issued = <<"pip_upgrade_failed">>)
    /\ (InstallCalled /\ e_last.upgrade_ok /\ e_last.had_manifest) =>
           /\ e_last.issued =
                  <<"pip_upgrade",
                    IF e_last.install_ok THEN "pip_manifest" ELSE "pip_manifest_failed">>
           /\ e_last.ret = (IF e_last.install_ok THEN "True" ELSE "False")

(* The upgrade failed in a directory without manifest. *)
C17_Witness ==
    /\ InstallCalled
    /\ ~e_last.upgrade_ok
    /\ ~e_last.had_manifest
    /\ e_last.ret = "False"

(* C18: without manifest and with the upgrade done, install_dependencies
   tries every default package, one at a time and in order, whichever of
   them fail, and returns True. *)
C18_DefaultsBestEffort ==
    (InstallCalled /\ e_last.upgrade_ok /\ ~e_last.had_manifest) =>
        /\ e_last.ret = "True"
        /\ Len(e_last.issued) = 1 + Len(CommonDeps)
        /\ e_last.issued[1] = "pip_upgrade"
        /\ \A k \in 1..Len(CommonDeps) :
             /\ e_last.issued[k + 1] \in {CommonDeps[k], DepFailed[CommonDeps[k]]}
             /\ e_last.issued[k + 1] = CommonDeps[k] <=>
                    CommonDeps[k] \notin e_last.failing

(* The first and the last package failed, the others were installed. *)
C18_Witness ==
    /\ InstallCalled
    /\ e_last.upgrade_ok
    /\ ~e_last.had_manifest
    /\ e_last.failing = {"torch", "requests"}
    /\ e_last.ret = "True"

----------------------------------------------------------------------------
(* Properties of the generated harness. *)

(* C19: a file whose script raises an uncaught exception gets a harness, and
   the harness process, having put the output streams back, exits with code 1
   and the file is reported not passed for that reason. *)
C19_RaisingScriptExitsOne ==
    \A k \in Wrapped :
        reports[k].src = <<"raise">> =>
            /\ reports[k].written
            /\ reports[k].executed
            /\ reports[k].proc.state = "exited"
            /\ reports[k].proc.rc = 1
            /\ reports[k].exit_reason = "non_zero_exit"
            /\ ~reports[k].passed

----------------------------------------------------------------------------
(* Properties of the workflow session. *)

OrchReturned == pc = "o_done" /\ o_outcome = "returned"

(* The returned session is terminal, and its status was assigned once. *)
TerminalOnce ==
    /\ Len(status_log) <= 1
    /\ session.status \in {"completed", "failed"} =>
          status_log = <<session.status>>
    /\ OrchReturned =>
          /\ o_ret.status \in {"completed", "failed"}
          /\ status_log = <<o_ret.status>>
    /\ \A k \in 1..Len(workflow_sessions) :
          o_outcome = "returned" =>
              workflow_sessions[k].status \in {"completed", "failed"}

(* C20 as stated: the returned session is completed or failed, its status is
   assigned once, and it is completed only if every phase method that was
   called reported success. *)
C20_CompletedMeansNoPhaseFailed ==
    /\ TerminalOnce
    /\ (OrchReturned /\ o_ret.status = "completed") =>
          \A k \in 1..Len(phase_log) : phase_log[k].ret = "ok"

(* C20, amended: the returned session is completed or failed, its status is
   assigned once, and it is completed only if every phase method that was
   called reported success, save that a failure reported by the environment
   and testing phase counts only under strict_testing. *)
C20_CompletedMeansNoFatalPhaseFailed ==
    /\ TerminalOnce
    /\ (OrchReturned /\ o_ret.status = "completed") =>
          \A k \in 1..Len(phase_log) :
              \/ phase_log[k].ret = "ok"
              \/ /\ phase_log[k].ret = "failed"
                 /\ phase_log[k].phase = "environment_and_testing"
                 /\ ~flags.strict_testing

C20_Witness ==
    /\ OrchReturned
    /\ o_ret.status = "completed"
    /\ flags.commit_changes
    /\ Len(phase_log) = 4
    /\ phase_log[3].ret = "failed"
    /\ phase_log[3].why = "venv"
    /\ workflow_sessions = <<o_ret>>

----------------------------------------------------------------------------
(* Properties of the chat front end. *)

(* The calls of run in progress: all of them work on the one repository path
   made of the client's repo_url and workdir. *)
ActiveRuns == {m \in Msgs : b_run[m] = "active"}

(* C21: at most one call of run is in progress on the repository path at a
   time: a second message's run does not start before the first returned. *)
C21_RunsSerialized == Cardinality(ActiveRuns) <= 1

Terminals(m) == SelectSeq(b_sent[m], LAMBDA k : k \in {"completion", "error"})

HandlerEnded(m) == b_pc[m] \in {"b_returned", "b_raised"}

(* C30: a message of another author with text starts run once and gets one
   terminal message, sent after its run has ended; the client's own messages
   and empty ones start no run and get no message. *)
C30_OneRunOneTerminalMessage ==
    \A m \in Msgs :
        /\ b_starts[m] <= 1
        /\ Len(Terminals(m)) <= 1
        /\ Terminals(m) # <<>> => b_run[m] \notin {"none", "active"}
        /\ HandlerEnded(m) =>
              IF b_msgs[m].own \/ b_msgs[m].empty
              THEN b_starts[m] = 0 /\ b_sent[m] = <<>>
              ELSE b_starts[m] = 1 /\ Len(Terminals(m)) = 1

----------------------------------------------------------------------------
(* Properties of the dependency manifest. *)

ManifestOf(d) == IF Exists(d, Manifest) THEN d[Manifest] ELSE <<"absent">>

(* The step is the call of create_requirements_file, in a run that tests in
   a sandbox it created and whose install_dependencies returned True. *)
FreezeAfterInstall ==
    /\ pc = "r_requirements"
    /\ deps_installed
    /\ flags.enable_testing /\ flags.create_venv
    /\ "venv_failed" \notin Range(ops)
    /\ "venv_not_started" \notin Range(ops)
    /\ "pip_upgrade" \in Range(ops)
    /\ "pip_manifest_failed" \notin Range(ops)

(* The step is make_code_changes writing a file the generated text names
   requirements.txt. *)
GeneratedManifest ==
    /\ pc = "m_write"
    /\ m_idx <= Len(matches)
    /\ TargetName(matches[m_idx].name) = Manifest

(* C22 as stated: a step of run changes requirements.txt only as the call of
   create_requirements_file after an installation that returned True. *)
C22_ManifestOnlyAfterInstall ==
    [][ManifestOf(disk') # ManifestOf(disk) => FreezeAfterInstall]_vars

(* C22, amended: a step of run changes requirements.txt only as the call of
   create_requirements_file after an installation that returned True, or as
   the write of a generated file that is named requirements.txt. *)
C22_ManifestOnlyAfterInstallOrGenerated ==
    [][ManifestOf(disk') # ManifestOf(disk) =>
          FreezeAfterInstall \/ GeneratedManifest]_vars

C22_Witness ==
    /\ RunEnded
    /\ ManifestOf(disk) = <<"freeze">>
    /\ deps_installed
    /\ "pip_manifest" \in Range(ops)

----------------------------------------------------------------------------
(* Properties of the harness file. *)

(* C23: a file handed to create_and_run_test_wrapper gets a harness file
   test_<name>, and once its verdict is there that harness file is gone,
   however the execution ended. *)
C23_HarnessFileRemoved ==
    \A k \in Wrapped :
        /\ reports[k].written
        /\ ~Exists(disk, WrapperName(reports[k].file))

(* C24: a script that runs cleanly has a harness that exits with code 0, and
   its file is reported passed whether or not deleting the harness file
   fails. *)
C24_DeleteFailureSwallowed ==
    \A k \in Wrapped :
        reports[k].src = <<"print">> =>
            /\ reports[k].executed
            /\ reports[k].passed
            /\ reports[k].exit_reason = "ok"

(* C27: no step of test_generated_code removes or changes a candidate file
   that is on disk, also when the candidates are a.py and test_a.py. *)
C27_CandidatesUntouched ==
    [][\A f \in Range(created_files) :
          Exists(disk, f) => Exists(disk', f) /\ disk'[f] = disk[f]]_vars

C27_Witness ==
    /\ TestReturned
    /\ created_files = <<<<"a", ".py">>, <<"test_", "a", ".py">>>>
    /\ Len(reports) = 2
    /\ Wrapped = {1, 2}
    /\ Exists(disk, <<"a", ".py">>)
    /\ Exists(disk, <<"test_", "a", ".py">>)

----------------------------------------------------------------------------
(* Properties of the git functions. *)

NewOps == {ops'[i] : i \in (Len(ops) + 1)..Len(ops')}

(* C25: while repo_path holds a valid git repository no step removes the
   directory or clones into it, also when git fetch fails. *)
C25_ExistingRepositoryKept ==
    [][repo_state = "valid" =>
          NewOps \cap {"rmtree", "rmtree_failed", "clone", "clone_failed"} = {}]_vars

BranchCalled == e_last.fn = "get_unique_branch_name"

(* C26: when the listing succeeds the name returned is the name of no local
   or remote branch, the checked-out one included: the base name if it is
   free, else the base name with the smallest free counter from 1. *)
C26_ReturnedNameIsFree ==
    (BranchCalled /\ e_last.listing_ok) =>
        LET taken == e_last.locals \cup e_last.remotes
        IN  /\ e_last.ret \notin taken
            /\ e_last.ret.base = e_last.base
            /\ \A k \in 0..(e_last.ret.n - 1) : Suffixed(e_last.base, k) \in taken

----------------------------------------------------------------------------
(* Properties of the working directory and of publication. *)

(* C28: when run has returned or an exception has left it, the working
   directory of the process is the one it had at entry. *)
C28_CwdRestored == RunEnded => cwd = "entry"

OpsAt(labels) == {k \in 1..Len(ops) : ops[k] \in labels}

(* C29: a pull request is requested only after, earlier in the same run, a
   commit succeeded and then the push succeeded; with commit_changes false
   the run stages, commits, pushes and requests nothing; with create_pr
   false it neither pushes nor requests a pull request; and after a failed
   push no pull request is requested. *)
C29_PublicationOrdered ==
    /\ \A k \in OpsAt({"pr", "pr_failed"}) :
         \E i \in OpsAt({"commit"}), j \in OpsAt({"push"}) : i < j /\ j < k
    /\ ~flags.commit_changes => OpsAt(PublishOps) = {}
    /\ ~flags.create_pr => OpsAt({"push", "push_failed", "pr", "pr_failed"}) = {}
    /\ OpsAt({"push_failed"}) # {} => OpsAt({"pr", "pr_failed"}) = {}

(* a run that committed, pushed and requested the pull request, and one
   whose push failed, are both covered: here the former has ended *)
C29_Witness ==
    /\ RunEnded
    /\ flags.commit_changes
    /\ flags.create_pr
    /\ OpsAt({"commit"}) # {}
    /\ OpsAt({"push"}) # {}
    /\ OpsAt({"pr"}) # {}

====
